---- MODULE Spec2Model ----
(***************************************************************************)
(* Shared-memory frame exchange of PJRmi (src/cpp/src/main/cpp/pjrmi.cpp). *)
(*                                                                         *)
(* One thread calls the library's entry points one after the other, as the *)
(* unit test does: write_bytes_to_shm (buffered and mapped write-through), *)
(* mmap_bytes_from_shm, munmap_bytes_from_shm and read_bytes_from_shm.     *)
(* Every call is split at its system calls.  A system call whose result    *)
(* the code tests may fail: gettimeofday, open(O_CREAT), fstatvfs, lseek,  *)
(* write, mmap, munmap, malloc; the callback may throw.  open(O_RDWR)      *)
(* fails when there is no such file.  fstat() on a descriptor the call has *)
(* just opened, close() and unlink() are taken to succeed.                 *)
(***************************************************************************)
EXTENDS Integers, Sequences, FiniteSets, TLC

(***************************************************************************)
(* Bounds of the model.                                                    *)
(***************************************************************************)
\* Largest payload length (array_bytes) a call is made with.
MaxN == 2
\* Number of inodes of the shared-memory filesystem.
MaxIno == 2
\* Number of addresses mmap() can hand out.
MaxMaps == 2
\* How many of the seven element types the calls are made with.
MaxTypes == 2
\* Values tv_usec takes, 0 .. MaxUsec.
MaxUsec == 0
\* Values rand() takes, 0 .. MaxRand.
MaxRand == 0
\* Microseconds the clock shows while create_filename() is called in a row.
MaxTick == 1
\* Largest value of rand() in those calls.
MaxSalt == 2
\* Number of calls of create_filename() made in a row.
MaxAllocs == 4
\* Longest message an exception is thrown with.
MaxMsg == 3
\* Number of calls of the library the thread makes.
MaxCalls == 3
\* Number of calls of the Python extension the interpreter makes.
MaxPyCalls == 5

(***************************************************************************)
(* Program constants.                                                      *)
(***************************************************************************)
\* static const char HEADER_BYTES[] = "SHMARRY"; with its terminating NUL.
HEADER_BYTES == <<83, 72, 77, 65, 82, 82, 89, 0>>
sizeof_HEADER_BYTES == Len(HEADER_BYTES)
\* enum class ArrayType : char
sizeof_ArrayType == 1
TYPE_BOOLEAN == 122
TYPE_BYTE == 98
TYPE_SHORT == 115
TYPE_INTEGER == 105
TYPE_LONG == 106
TYPE_FLOAT == 102
TYPE_DOUBLE == 100
UNKNOWN == 0
ArrayType ==
    {TYPE_BOOLEAN, TYPE_BYTE, TYPE_SHORT, TYPE_INTEGER,
     TYPE_LONG, TYPE_FLOAT, TYPE_DOUBLE, UNKNOWN}
SupportedTypes == ArrayType \ {UNKNOWN}
\* pid_t tid = syscall(SYS_gettid)
ThreadId == 7
\* syscall(SYS_gettid) in a second thread.
OtherThreadId == 71
\* Granularity of mmap(): accesses past the last page of the file fault.
PageSize == 4096

(***************************************************************************)
(* Inputs of the calls.                                                    *)
(***************************************************************************)
TypeOrder ==
    <<TYPE_BOOLEAN, TYPE_INTEGER, TYPE_BYTE, TYPE_SHORT,
      TYPE_LONG, TYPE_FLOAT, TYPE_DOUBLE>>
Min(a, b) == IF a < b THEN a ELSE b
Max(a, b) == IF a < b THEN b ELSE a
CallTypes == {TypeOrder[i] : i \in 1..Min(MaxTypes, 7)} \cup {UNKNOWN}
\* Payloads of every length up to MaxN, two of each: 1, 2, .. and its reverse.
Payloads ==
    {[i \in 1..n |-> i] : n \in 0..MaxN} \cup
    {[i \in 1..n |-> n + 1 - i] : n \in 0..MaxN}
\* The largest file a write leaves: the mapped writer's bytes_to_write + 1.
MaxFile == MaxN + sizeof_HEADER_BYTES + sizeof_ArrayType + 1
\* Free space, in bytes, that fstatvfs() may report.
Sizes == 0..MaxFile
\* Addresses mmap() hands out, and the inodes of the filesystem.
Bases == {PageSize * i : i \in 1..MaxMaps}
Inodes == 1..MaxIno

(***************************************************************************)
(* create_filename(): "/dev/shm/" + to_string(time) + '.' +                *)
(* to_string(tid) + '.' + to_string(rand()).                               *)
(***************************************************************************)
Digit(d) == <<"0", "1", "2", "3", "4", "5", "6", "7", "8", "9">>[d + 1]

RECURSIVE to_string(_)
to_string(n) ==
    IF n < 0 THEN <<"-">> \o to_string(0 - n)
    ELSE IF n < 10 THEN <<Digit(n)>>
    ELSE to_string(n \div 10) \o <<Digit(n % 10)>>

DevShm == <<"/", "d", "e", "v", "/", "s", "h", "m", "/">>

TimeOf(tv_sec, tv_usec) == tv_sec * 1000000 + tv_usec

\* The handle without the rand() at its end.
create_filename_unsalted(tv_sec, tv_usec, tid, rnd) ==
    DevShm \o to_string(TimeOf(tv_sec, tv_usec)) \o <<".">> \o to_string(tid)

create_filename(tv_sec, tv_usec, tid, rnd) ==
    DevShm \o to_string(TimeOf(tv_sec, tv_usec)) \o <<".">> \o to_string(tid)
           \o <<".">> \o to_string(rnd)

Names ==
    {create_filename(0, u, ThreadId, r) : u \in 0..MaxUsec, r \in 0..MaxRand}
EmptyName == <<>>
FirstName == create_filename(0, 0, ThreadId, 0)

(***************************************************************************)
(* Files: a directory of names pointing at inodes, inodes holding bytes.   *)
(***************************************************************************)
RECURSIVE Zeros(_)
Zeros(n) == IF n <= 0 THEN <<>> ELSE <<0>> \o Zeros(n - 1)

\* write(2) of bytes at offset off (0-based) of a file holding content: a gap
\* between the end of the file and off reads as zeros.
pwrite(content, off, bytes) ==
    LET padded == IF Len(content) < off
                  THEN content \o Zeros(off - Len(content)) ELSE content
        total  == Max(Len(padded), off + Len(bytes))
    IN  [i \in 1..total |->
            IF i > off /\ i <= off + Len(bytes) THEN bytes[i - off]
            ELSE padded[i]]

Prefix(s, k) == SubSeq(s, 1, k)

PageUp(n) == ((n + PageSize - 1) \div PageSize) * PageSize

\* A load from byte i (0-based) of a mapping of a file holding content:
\* bytes past the end of the file inside its last page read as zero, bytes
\* past that page raise SIGBUS.
Faults(content, i) == i >= PageUp(Len(content))
Load(content, i) == IF i < Len(content) THEN content[i + 1] ELSE 0
LoadSeq(content, from, n) == [k \in 1..n |-> Load(content, from + k - 1)]

VARIABLES
    names,      \* directory /dev/shm: name -> inode, 0 when the name is free
    data,       \* inode -> bytes of the file
    fds,        \* open file descriptors: [ino, by]
    maps,       \* active mappings: [base, len, ino, prot, by]
    pc,         \* position of the thread inside the call in progress
    fr,         \* arguments and locals of the call in progress
    ret,        \* what the last call returned or threw
    published,  \* handle -> frame a write returned it for (the control channel)
    held,       \* pointers returned by mmap_bytes_from_shm, not yet released
    calls,      \* number of calls made so far
    allocs,     \* what the direct calls of create_filename() returned, in order
    ext         \* the Python extension: its statics, its JVM, its call in progress

vars == <<names, data, fds, maps, pc, fr, ret, published, held, calls, allocs,
          ext>>

\* What a nativeGet*Array call of the JNI glue has done so far: the jstring
\* filename it was given, the pointer pjrmi_array_from_shm() returned (0 is
\* NULL), whether Set*ArrayRegion() has copied, and the arguments of every
\* munmap_bytes_from_shm() it has invoked.
NoJni == [filename |-> EmptyName, data |-> 0, copied |-> FALSE, released |-> <<>>]
NoFrame == [fn |-> "none", file |-> EmptyName, array_bytes |-> 0, type |-> UNKNOWN,
            data |-> <<>>, fd |-> 0, off |-> 0, position |-> 0, addr |-> 0,
            file_addr |-> 0, out |-> <<>>, failed |-> {}, short |-> FALSE,
            invoked |-> 0, taken |-> "no", turns |-> 0,
            jni |-> NoJni, checked |-> 0]
NoRet == [fn |-> "none", kind |-> "none", file |-> EmptyName, addr |-> 0,
          data |-> <<>>, stage |-> "none", failed |-> {}, array_bytes |-> 0,
          type |-> UNKNOWN, short |-> FALSE, mapped |-> 0, invoked |-> 0, taken |-> "no",
          jni |-> NoJni, checked |-> 0]
\* The extension when it is loaded: bool PJRmiPipe::_have_instance = false and
\* static PJRmiPipe* _pipe = NULL; no JavaVM, no call in progress.
NoJvm == [have_instance |-> FALSE, pipe |-> "NULL", connected |-> FALSE,
          jvms |-> 0, pc |-> "idle", args |-> "none", err |-> "none",
          destroyed |-> 0]
NoPub == [mode |-> "none", array_bytes |-> 0, type |-> UNKNOWN, data |-> <<>>]

\* Inodes nothing refers to any more are free for the next creat.
InUse(i) ==
    \/ \E n \in Names : names[n] = i
    \/ \E d \in fds : d.ino = i
    \/ \E m \in maps : m.ino = i
FreeInodes == {i \in Inodes : ~InUse(i)}
\* mmap(NULL, ...) leaves the address to the kernel, and the code never looks
\* at its value: the lowest free page is taken.
FreeBases ==
    LET free == {b \in Bases : \A m \in maps : m.base # b}
    IN  {b \in free : \A c \in free : b <= c}
Exists(file) == file \in Names /\ names[file] # 0
Content(file) == data[names[file]]

\* No file is at the path once the step is taken.
NoFileLeft(file) == file \in Names => names'[file] = 0

\* unlink(file) that leaves the name in the directory.
unlink_kept(file) == names

\* unlink(file): the name goes; the inode lives on while it is open or mapped.
unlink(file) == IF file \in Names THEN [names EXCEPT ![file] = 0] ELSE names

\* Files other programs left in the directory before the first call.
ForeignFiles ==
    {<<83>>, <<1, 1, 1, 1, 1, 1, 1, 1, TYPE_BOOLEAN>>}

Init ==
    /\ \/ /\ names = [m \in Names |-> 0]
          /\ data = [i \in Inodes |-> <<>>]
       \/ \E c \in ForeignFiles :
             /\ names = [m \in Names |-> IF m = FirstName THEN 1 ELSE 0]
             /\ data = [i \in Inodes |-> IF i = 1 THEN c ELSE <<>>]
    /\ fds = {}
    /\ maps = {}
    /\ pc = "idle"
    /\ fr = NoFrame
    /\ ret = NoRet
    /\ published = [n \in Names |-> NoPub]
    /\ held = {}
    /\ calls = 0
    /\ allocs = <<>>
    /\ ext = NoJvm

\* The call in progress throws: its frame is gone, the caller sees the kind.
\* How many times the callback of the call in progress has been entered, the
\* step that enters it included.
Invoked == fr.invoked + (IF pc = "lambda" THEN 1 ELSE 0)

\* `now' holds the system calls that failed at this very step.
ThrowWith(kind, stage, now, short) ==
    /\ pc' = "idle"
    /\ ret' = [fn |-> fr.fn, kind |-> kind, file |-> fr.file, addr |-> 0,
               data |-> <<>>, stage |-> stage, failed |-> fr.failed \cup now,
               array_bytes |-> fr.array_bytes, type |-> fr.type,
               short |-> short, mapped |-> fr.addr, invoked |-> Invoked,
               taken |-> fr.taken, jni |-> fr.jni,
               checked |-> fr.checked]
    /\ fr' = NoFrame

Throw(kind, stage, now) == ThrowWith(kind, stage, now, fr.short)

\* The call in progress returns.
Return(file, addr, bytes, now) ==
    /\ pc' = "idle"
    /\ ret' = [fn |-> fr.fn, kind |-> "ok", file |-> file, addr |-> addr,
               data |-> bytes, stage |-> "return", failed |-> fr.failed \cup now,
               array_bytes |-> fr.array_bytes, type |-> fr.type,
               short |-> fr.short, mapped |-> fr.addr, invoked |-> Invoked,
               taken |-> fr.taken, jni |-> fr.jni,
               checked |-> fr.checked]
    /\ fr' = NoFrame

\* close(fd) that leaves the descriptor open.
close_forgotten(fd, by) == fds

close(fd, by) == fds \ {[ino |-> fd, by |-> by]}

\* A store of bytes at byte i (0-based) of a mapping of a file: only the
\* bytes that fall inside the file reach it.
Store(content, i, bytes) ==
    [k \in 1..Len(content) |->
        IF k > i /\ k <= i + Len(bytes) THEN bytes[k - i] ELSE content[k]]

\* munmap(addr, len): EINVAL unless addr is page aligned; every mapping with
\* a page inside [addr, addr + len) goes.
munmap_ok(addr, len) == addr % PageSize = 0 /\ len > 0
\* munmap(addr, len) that removes a mapping only when addr is inside it, as
\* when it is handed the pointer to the payload and a length of no full page.
munmap_inside(addr, len) ==
    {m \in maps : ~(m.base < addr /\ addr < m.base + PageUp(m.len))}

munmap(addr, len) ==
    {m \in maps : \/ m.base + PageUp(m.len) <= addr
                  \/ addr + PageUp(len) <= m.base}

\* The mapping that starts at base, and the mapping an address lies in.
MapAt(base) == CHOOSE m \in maps : m.base = base
MapOf(addr) == CHOOSE m \in maps : m.base <= addr /\ addr < m.base + PageUp(m.len)

\* Total number of bytes of a frame holding array_bytes bytes of payload.
bytes_to_write(array_bytes) == array_bytes + sizeof_HEADER_BYTES + sizeof_ArrayType


\* The new state of the filesystem and of the process's descriptors and
\* mappings; an inode that lost its last reference is freed.
Settle(ns, ds, fs, ms) ==
    /\ names' = ns
    /\ fds' = fs
    /\ maps' = ms
    /\ data' = [i \in Inodes |->
                  IF \/ \E n \in Names : ns[n] = i
                     \/ \E d \in fs : d.ino = i
                     \/ \E m \in ms : m.ino = i
                  THEN ds[i] ELSE <<>>]

(***************************************************************************)
(* write_bytes_to_shm(), both overloads: the common beginning.             *)
(***************************************************************************)
\* write_bytes_to_shm(const void* data, array_bytes, type) is called.
write_bytes_to_shm_data ==
    /\ pc = "idle"
    /\ calls < MaxCalls
    /\ calls' = calls + 1
    /\ UNCHANGED <<allocs, ext>>
    /\ \E payload \in Payloads, type \in CallTypes :
          fr' = [NoFrame EXCEPT !.fn = "write_data", !.data = payload,
                                !.array_bytes = Len(payload), !.type = type]
    /\ pc' = "create_filename"
    /\ ret' = NoRet
    /\ UNCHANGED <<names, data, fds, maps, published, held>>

\* write_bytes_to_shm(lambda, array_bytes, type) is called; the lambda copies
\* array_bytes bytes of payload to the address it is given.
write_bytes_to_shm_lambda ==
    /\ pc = "idle"
    /\ calls < MaxCalls
    /\ calls' = calls + 1
    /\ UNCHANGED <<allocs, ext>>
    /\ \E payload \in Payloads, type \in CallTypes :
          fr' = [NoFrame EXCEPT !.fn = "write_lambda", !.data = payload,
                                !.array_bytes = Len(payload), !.type = type]
    /\ pc' = "create_filename"
    /\ ret' = NoRet
    /\ UNCHANGED <<names, data, fds, maps, published, held>>

\* open_file_for_write(file, bytes_to_write) is called on its own with an
\* empty name, which write_bytes_to_shm never gives it; with any other name
\* it goes as it does inside write_bytes_to_shm.
open_file_for_write ==
    /\ pc = "idle"
    /\ calls < MaxCalls
    /\ calls' = calls + 1
    /\ UNCHANGED <<allocs, ext>>
    /\ \E n \in 0..MaxN :
          fr' = [NoFrame EXCEPT !.fn = "open_file_for_write", !.file = EmptyName,
                                !.array_bytes = n]
    /\ pc' = "open_file_for_write"
    /\ ret' = NoRet
    /\ UNCHANGED <<names, data, fds, maps, published, held>>

\* The time, the thread and the salt make the name one that no file has.
Fresh(file) == ~Exists(file)

\* create_filename() that reports a clock it cannot read as an io error.
W_create_filename_io ==
    /\ pc = "create_filename"
    /\ UNCHANGED <<calls, allocs, ext>>
    /\ \/ /\ Throw("io", "create_filename", {"gettimeofday"})
          /\ UNCHANGED <<names, data, fds, maps, published, held>>
       \/ \E usec \in 0..MaxUsec, rnd \in 0..MaxRand :
             /\ Fresh(create_filename(0, usec, ThreadId, rnd))
             /\ fr' = [fr EXCEPT !.file = create_filename(0, usec, ThreadId, rnd)]
             /\ pc' = "open_file_for_write"
             /\ UNCHANGED <<names, data, fds, maps, ret, published, held>>

\* generated_filename = create_filename(): gettimeofday() may fail.
W_create_filename ==
    /\ pc = "create_filename"
    /\ UNCHANGED <<calls, allocs, ext>>
    /\ \/ /\ Throw("illegal_argument", "create_filename", {"gettimeofday"})
          /\ UNCHANGED <<names, data, fds, maps, published, held>>
       \/ \E usec \in 0..MaxUsec, rnd \in 0..MaxRand :
             /\ Fresh(create_filename(0, usec, ThreadId, rnd))
             /\ fr' = [fr EXCEPT !.file = create_filename(0, usec, ThreadId, rnd)]
             /\ pc' = "open_file_for_write"
             /\ UNCHANGED <<names, data, fds, maps, ret, published, held>>

\* generated_filename = create_filename() when the time, the thread and the
\* salt give a name that a file has: nothing in create_filename() looks.
\* `taken' records what the file was: a frame a write in mode "data" or
\* "lambda" returned the name of, or ("none") some other file.
W_create_filename_taken ==
    /\ pc = "create_filename"
    /\ UNCHANGED <<calls, allocs, ext>>
    /\ \E usec \in 0..MaxUsec, rnd \in 0..MaxRand :
          /\ ~Fresh(create_filename(0, usec, ThreadId, rnd))
          /\ LET file == create_filename(0, usec, ThreadId, rnd)
             IN  fr' = [fr EXCEPT !.file = file,
                                  !.taken = published[file].mode]
          /\ pc' = "open_file_for_write"
          /\ UNCHANGED <<names, data, fds, maps, ret, published, held>>

\* open_file_for_write() whose open() has no O_TRUNC: a file that is there
\* keeps its bytes.
OFW_open_keeps_bytes ==
    /\ pc = "open_file_for_write"
    /\ UNCHANGED <<calls, allocs, ext>>
    /\ IF fr.file = EmptyName
       THEN /\ Throw("illegal_argument", "open_file_for_write", {})
            /\ UNCHANGED <<names, data, fds, maps, published, held>>
       ELSE \/ /\ Throw("io", "open", {"open"})
               /\ UNCHANGED <<names, data, fds, maps, published, held>>
            \/ /\ Exists(fr.file) \/ FreeInodes # {}
               /\ LET ino == IF Exists(fr.file) THEN names[fr.file]
                             ELSE CHOOSE i \in FreeInodes :
                                      \A j \in FreeInodes : i <= j
                  IN  /\ Settle([names EXCEPT ![fr.file] = ino], data,
                                fds \cup {[ino |-> ino, by |-> "writer"]}, maps)
                      /\ fr' = [fr EXCEPT !.fd = ino, !.off = 0]
               /\ published' = [published EXCEPT ![fr.file] = NoPub]
               /\ pc' = "fstatvfs"
               /\ UNCHANGED <<ret, held>>

\* open_file_for_write() without its check of the name: open() is left to
\* fail on the empty name.
OFW_open_unchecked ==
    /\ pc = "open_file_for_write"
    /\ UNCHANGED <<calls, allocs, ext>>
    /\ \/ /\ Throw("io", "open", {"open"})
          /\ UNCHANGED <<names, data, fds, maps, published, held>>
       \/ /\ fr.file \in Names
          /\ Exists(fr.file) \/ FreeInodes # {}
          /\ LET ino == IF Exists(fr.file) THEN names[fr.file]
                        ELSE CHOOSE i \in FreeInodes :
                                 \A j \in FreeInodes : i <= j
             IN  /\ Settle([names EXCEPT ![fr.file] = ino],
                           [data EXCEPT ![ino] = <<>>],
                           fds \cup {[ino |-> ino, by |-> "writer"]}, maps)
                 /\ fr' = [fr EXCEPT !.fd = ino, !.off = 0]
          /\ published' = [published EXCEPT ![fr.file] = NoPub]
          /\ pc' = "fstatvfs"
          /\ UNCHANGED <<ret, held>>

\* open_file_for_write() that gives the file its full length as it creates
\* it, before the free space is looked at.
OFW_open_stretches ==
    /\ pc = "open_file_for_write"
    /\ UNCHANGED <<calls, allocs, ext>>
    /\ IF fr.file = EmptyName
       THEN /\ Throw("illegal_argument", "open_file_for_write", {})
            /\ UNCHANGED <<names, data, fds, maps, published, held>>
       ELSE \/ /\ Throw("io", "open", {"open"})
               /\ UNCHANGED <<names, data, fds, maps, published, held>>
            \/ /\ Exists(fr.file) \/ FreeInodes # {}
               /\ LET ino == IF Exists(fr.file) THEN names[fr.file]
                             ELSE CHOOSE i \in FreeInodes :
                                      \A j \in FreeInodes : i <= j
                  IN  /\ Settle([names EXCEPT ![fr.file] = ino],
                                [data EXCEPT ![ino] =
                                    Zeros(bytes_to_write(fr.array_bytes))],
                                fds \cup {[ino |-> ino, by |-> "writer"]}, maps)
                      /\ fr' = [fr EXCEPT !.fd = ino, !.off = 0]
               /\ published' = [published EXCEPT ![fr.file] = NoPub]
               /\ pc' = "fstatvfs"
               /\ UNCHANGED <<ret, held>>

\* open_file_for_write(), up to open(file, O_RDWR | O_CREAT | O_TRUNC): the
\* file is created, or emptied when the name is taken.
OFW_open ==
    /\ pc = "open_file_for_write"
    /\ UNCHANGED <<calls, allocs, ext>>
    /\ IF fr.file = EmptyName
       THEN /\ Throw("illegal_argument", "open_file_for_write", {})
            /\ UNCHANGED <<names, data, fds, maps, published, held>>
       ELSE \/ /\ Throw("io", "open", {"open"})
               /\ UNCHANGED <<names, data, fds, maps, published, held>>
            \/ /\ Exists(fr.file) \/ FreeInodes # {}
               /\ LET ino == IF Exists(fr.file) THEN names[fr.file]
                             ELSE CHOOSE i \in FreeInodes :
                                      \A j \in FreeInodes : i <= j
                  IN  /\ Settle([names EXCEPT ![fr.file] = ino],
                                [data EXCEPT ![ino] = <<>>],
                                fds \cup {[ino |-> ino, by |-> "writer"]}, maps)
                      /\ fr' = [fr EXCEPT !.fd = ino, !.off = 0]
               /\ published' = [published EXCEPT ![fr.file] = NoPub]
               /\ pc' = "fstatvfs"
               /\ UNCHANGED <<ret, held>>

\* The comparison with the size of the payload alone, the header forgotten.
InsufficientForPayload(free, needed) ==
    free < needed - (sizeof_HEADER_BYTES + sizeof_ArrayType)

\* (size_t)buf.f_bsize * (size_t)buf.f_bavail < bytes_to_write
Insufficient(free, needed) == free < needed

\* open_file_for_write(), from fstatvfs() on, with the unlink(file) of the
\* failure paths left out.
OFW_fstatvfs_keeps_file ==
    /\ pc = "fstatvfs"
    /\ UNCHANGED <<calls, allocs, ext>>
    /\ \/ /\ Throw("io", "fstatvfs", {"fstatvfs"})
          /\ Settle(names, data, close(fr.fd, "writer"), maps)
          /\ UNCHANGED <<published, held>>
       \/ \E free \in Sizes :
             LET short == free < 9 + fr.array_bytes
             IN  IF Insufficient(free, bytes_to_write(fr.array_bytes))
                 THEN /\ ThrowWith("out_of_memory", "space", {}, short)
                      /\ Settle(names, data, close(fr.fd, "writer"), maps)
                      /\ UNCHANGED <<published, held>>
                 ELSE IF fr.fn = "open_file_for_write"
                 THEN /\ ThrowWith("ok", "return", {}, short)
                      /\ UNCHANGED <<names, data, fds, maps, published, held>>
                 ELSE /\ pc' = IF fr.fn = "write_data" THEN "write_header"
                               ELSE "lseek"
                      /\ fr' = [fr EXCEPT !.short = short,
                                          !.checked = bytes_to_write(fr.array_bytes)]
                      /\ UNCHANGED <<names, data, fds, maps, ret, published, held>>

\* open_file_for_write(), from fstatvfs() on: the free space f_bsize *
\* f_bavail is compared with bytes_to_write.  `short' records that the
\* filesystem reported less than the frame's 9 + array_bytes bytes.  Called
\* on its own, the function returns the descriptor, which stays open.
OFW_fstatvfs ==
    /\ pc = "fstatvfs"
    /\ UNCHANGED <<calls, allocs, ext>>
    /\ \/ /\ Throw("io", "fstatvfs", {"fstatvfs"})
          /\ Settle(unlink(fr.file), data, close(fr.fd, "writer"), maps)
          /\ UNCHANGED <<published, held>>
       \/ \E free \in Sizes :
             LET short == free < 9 + fr.array_bytes
             IN  IF Insufficient(free, bytes_to_write(fr.array_bytes))
                 THEN /\ ThrowWith("out_of_memory", "space", {}, short)
                      /\ Settle(unlink(fr.file), data, close(fr.fd, "writer"), maps)
                      /\ UNCHANGED <<published, held>>
                 ELSE IF fr.fn = "open_file_for_write"
                 THEN /\ ThrowWith("ok", "return", {}, short)
                      /\ UNCHANGED <<names, data, fds, maps, published, held>>
                 ELSE /\ pc' = IF fr.fn = "write_data" THEN "write_header"
                               ELSE "lseek"
                      /\ fr' = [fr EXCEPT !.short = short,
                                          !.checked = bytes_to_write(fr.array_bytes)]
                      /\ UNCHANGED <<names, data, fds, maps, ret, published, held>>

(***************************************************************************)
(* write_bytes_to_shm(const void* data, ...): buffered mode.               *)
(***************************************************************************)
\* What write(fd, buf, count) may return: an error, nothing, a short count,
\* the whole count.
WriteResults(count) == {-1, 0, count - 1, count} \cap (-1..count)

\* One write(fd, buf, count) at the descriptor's offset that returns `written'.
Written(buf, written) ==
    /\ data' = [data EXCEPT ![fr.fd] = pwrite(@, fr.off, Prefix(buf, written))]
    /\ UNCHANGED <<names, fds, maps>>

\* write(fd, HEADER_BYTES, sizeof(HEADER_BYTES)); the result is not looked at.
WD_write_header ==
    /\ pc = "write_header"
    /\ UNCHANGED <<calls, allocs, ext>>
    /\ \E written \in WriteResults(sizeof_HEADER_BYTES) :
          IF written < 0
          THEN /\ fr' = [fr EXCEPT !.failed = @ \cup {"write"}]
               /\ UNCHANGED <<names, data, fds, maps>>
          ELSE /\ Written(HEADER_BYTES, written)
               /\ fr' = [fr EXCEPT !.off = @ + written,
                                   !.failed = IF written < sizeof_HEADER_BYTES
                                              THEN @ \cup {"write"} ELSE @]
    /\ pc' = "write_type"
    /\ UNCHANGED <<ret, published, held>>

\* write(fd, &casted_type, sizeof(casted_type)); the result is not looked at.
WD_write_type ==
    /\ pc = "write_type"
    /\ UNCHANGED <<calls, allocs, ext>>
    /\ \E written \in WriteResults(sizeof_ArrayType) :
          IF written < 0
          THEN /\ fr' = [fr EXCEPT !.failed = @ \cup {"write"}]
               /\ UNCHANGED <<names, data, fds, maps>>
          ELSE /\ Written(<<fr.type>>, written)
               /\ fr' = [fr EXCEPT !.off = @ + written,
                                   !.failed = IF written < sizeof_ArrayType
                                              THEN @ \cup {"write"} ELSE @]
    /\ pc' = "write_loop"
    /\ UNCHANGED <<ret, published, held>>

\* The buffer of a write() that starts over from the first byte of data.
RemainingFromStart(buf, position, array_bytes) ==
    SubSeq(buf, 1, array_bytes - position)

\* (uint8_t*)data + position, array_bytes - position: what is left to write.
Remaining(buf, position, array_bytes) == SubSeq(buf, position + 1, array_bytes)

\* while (position < array_bytes) { written = write(...); ... }: one turn of
\* the loop, or its end.  `turns' is the parity of the number of turns taken,
\* so that a turn whose write() wrote nothing is a step like any other.
WD_write_loop ==
    /\ pc = "write_loop"
    /\ UNCHANGED <<calls, allocs, ext>>
    /\ IF fr.position < fr.array_bytes
       THEN \E written \in WriteResults(fr.array_bytes - fr.position) :
               IF written < 0
               THEN /\ pc' = "fstat"
                    /\ fr' = [fr EXCEPT !.failed = @ \cup {"write"}]
                    /\ UNCHANGED <<names, data, fds, maps>>
               ELSE /\ Written(Remaining(fr.data, fr.position, fr.array_bytes),
                               written)
                    /\ fr' = [fr EXCEPT !.off = @ + written,
                                        !.position = @ + written,
                                        !.turns = 1 - @]
                    /\ pc' = "write_loop"
       ELSE /\ pc' = "fstat"
            /\ UNCHANGED <<names, data, fds, maps, fr>>
    /\ UNCHANGED <<ret, published, held>>

\* buffer.st_size after fstat(fd, &buffer): the size of the file.
st_size(fd) == Len(data[fd])

\* The frame a write publishes along with the handle it returns.
Publish(mode) ==
    published' = [published EXCEPT ![fr.file] =
                     [mode |-> mode, array_bytes |-> fr.array_bytes,
                      type |-> fr.type, data |-> fr.data]]

\* The size the buffered writer requires of the file it wrote.
WD_expected_size(array_bytes) == bytes_to_write(array_bytes)

\* The end of the buffered write without its check of the size.
WD_fstat_unchecked ==
    /\ pc = "fstat"
    /\ UNCHANGED <<calls, allocs, ext>>
    /\ Return(fr.file, 0, <<>>, {})
    /\ Settle(names, data, close(fr.fd, "writer"), maps)
    /\ Publish("data")
    /\ UNCHANGED held

\* The end of the buffered write that unlinks the file it returns the name of.
WD_fstat_unlinks ==
    /\ pc = "fstat"
    /\ UNCHANGED <<calls, allocs, ext>>
    /\ IF st_size(fr.fd) # WD_expected_size(fr.array_bytes)
       THEN /\ Throw("io", "size", {})
            /\ Settle(unlink(fr.file), data, close(fr.fd, "writer"), maps)
            /\ UNCHANGED <<published, held>>
       ELSE /\ Return(fr.file, 0, <<>>, {})
            /\ Settle(unlink(fr.file), data, close(fr.fd, "writer"), maps)
            /\ Publish("data")
            /\ UNCHANGED held

\* fstat(fd, &buffer); the size check; close(fd); return generated_filename.
WD_fstat ==
    /\ pc = "fstat"
    /\ UNCHANGED <<calls, allocs, ext>>
    /\ IF st_size(fr.fd) # WD_expected_size(fr.array_bytes)
       THEN /\ Throw("io", "size", {})
            /\ Settle(unlink(fr.file), data, close(fr.fd, "writer"), maps)
            /\ UNCHANGED <<published, held>>
       ELSE /\ Return(fr.file, 0, <<>>, {})
            /\ Settle(names, data, close(fr.fd, "writer"), maps)
            /\ Publish("data")
            /\ UNCHANGED held

(***************************************************************************)
(* write_bytes_to_shm(lambda, ...): mapped write-through mode.             *)
(***************************************************************************)
\* The offset the mapped writer seeks to before it writes one byte.
WL_seek_offset(array_bytes) == bytes_to_write(array_bytes)

\* lseek(fd, bytes_to_write, SEEK_SET) whose failure branch unlinks the file
\* and forgets close(fd).
WL_lseek_leaks ==
    /\ pc = "lseek"
    /\ UNCHANGED <<calls, allocs, ext>>
    /\ \/ /\ Throw("io", "lseek", {"lseek"})
          /\ Settle(unlink(fr.file), data, fds, maps)
          /\ UNCHANGED <<published, held>>
       \/ /\ fr' = [fr EXCEPT !.off = WL_seek_offset(fr.array_bytes)]
          /\ pc' = "write_empty"
          /\ UNCHANGED <<names, data, fds, maps, ret, published, held>>

\* lseek(fd, bytes_to_write, SEEK_SET)
WL_lseek ==
    /\ pc = "lseek"
    /\ UNCHANGED <<calls, allocs, ext>>
    /\ \/ /\ Throw("io", "lseek", {"lseek"})
          /\ Settle(unlink(fr.file), data, close(fr.fd, "writer"), maps)
          /\ UNCHANGED <<published, held>>
       \/ /\ fr' = [fr EXCEPT !.off = WL_seek_offset(fr.array_bytes)]
          /\ pc' = "write_empty"
          /\ UNCHANGED <<names, data, fds, maps, ret, published, held>>

\* write(fd, "", 1) != 1
WL_write_empty ==
    /\ pc = "write_empty"
    /\ UNCHANGED <<calls, allocs, ext>>
    /\ \E written \in WriteResults(1) :
          IF written # 1
          THEN /\ Throw("io", "write", {"write"})
               /\ Settle(unlink(fr.file), data, close(fr.fd, "writer"), maps)
               /\ UNCHANGED <<published, held>>
          ELSE /\ Written(<<0>>, written)
               /\ fr' = [fr EXCEPT !.off = @ + written]
               /\ pc' = "fstat_stretched"
               /\ UNCHANGED <<ret, published, held>>

\* The size the mapped writer requires of the file it stretched.
WL_expected_size(array_bytes) == bytes_to_write(array_bytes) + 1

\* fstat(fd, &buffer) and the size check of the stretched file.
WL_fstat ==
    /\ pc = "fstat_stretched"
    /\ UNCHANGED <<calls, allocs, ext>>
    /\ IF st_size(fr.fd) # WL_expected_size(fr.array_bytes)
       THEN /\ Throw("io", "size", {})
            /\ Settle(unlink(fr.file), data, close(fr.fd, "writer"), maps)
            /\ UNCHANGED <<published, held>>
       ELSE /\ pc' = "mmap_write"
            /\ UNCHANGED <<names, data, fds, maps, fr, ret, published, held>>

\* mmap(NULL, bytes_to_write, PROT_READ | PROT_WRITE, MAP_SHARED, fd, 0)
WL_mmap ==
    /\ pc = "mmap_write"
    /\ UNCHANGED <<calls, allocs, ext>>
    /\ \/ /\ Throw("io", "mmap", {"mmap"})
          /\ Settle(unlink(fr.file), data, close(fr.fd, "writer"), maps)
          /\ UNCHANGED <<published, held>>
       \/ \E base \in FreeBases :
             /\ Settle(names, data, fds,
                       maps \cup {[base |-> base,
                                   len |-> bytes_to_write(fr.array_bytes),
                                   ino |-> fr.fd, prot |-> "rw", shared |-> TRUE,
                                   by |-> "writer"]})
             /\ fr' = [fr EXCEPT !.addr = base]
             /\ pc' = "fill_header"
             /\ UNCHANGED <<ret, published, held>>

\* The mapped write that leaves the magic and the tag to be stored after the
\* callback.
WL_skip_header ==
    /\ pc = "fill_header"
    /\ UNCHANGED <<calls, allocs, ext>>
    /\ Settle(names, data, close(fr.fd, "writer"), maps)
    /\ fr' = [fr EXCEPT !.file_addr = fr.addr + sizeof_HEADER_BYTES + 1, !.fd = 0]
    /\ pc' = "lambda"
    /\ UNCHANGED <<ret, published, held>>

\* close(fd); memcpy(file_addr, HEADER_BYTES, ...); *file_addr = char_type.
WL_fill_header ==
    /\ pc = "fill_header"
    /\ UNCHANGED <<calls, allocs, ext>>
    /\ Settle(names,
              [data EXCEPT ![MapAt(fr.addr).ino] =
                  Store(Store(@, 0, HEADER_BYTES), sizeof_HEADER_BYTES, <<fr.type>>)],
              close(fr.fd, "writer"), maps)
    /\ fr' = [fr EXCEPT !.file_addr = fr.addr + sizeof_HEADER_BYTES + 1, !.fd = 0]
    /\ pc' = "lambda"
    /\ UNCHANGED <<ret, published, held>>

\* lambda(file_addr): the callback copies the payload to file_addr, or throws
\* after it has copied the first k bytes.
WL_lambda ==
    /\ pc = "lambda"
    /\ UNCHANGED <<calls, allocs, ext>>
    /\ LET off == fr.file_addr - MapOf(fr.file_addr).base
           ino == MapOf(fr.file_addr).ino
       IN  \/ /\ Settle(names, [data EXCEPT ![ino] = Store(@, off, fr.data)],
                        fds, maps)
              /\ pc' = "munmap_write"
              /\ fr' = [fr EXCEPT !.invoked = Invoked]
              /\ UNCHANGED <<ret, published, held>>
           \/ \E k \in 0..fr.array_bytes :
                 /\ Settle(names,
                           [data EXCEPT ![ino] = Store(@, off, Prefix(fr.data, k))],
                           fds, maps)
                 /\ Throw("callback", "lambda", {"lambda"})
                 /\ UNCHANGED <<published, held>>

\* The end of the mapped write whose failure branch forgets unlink(file).
WL_munmap_keeps_file ==
    /\ pc = "munmap_write"
    /\ UNCHANGED <<calls, allocs, ext>>
    /\ LET addr == fr.addr
           len  == bytes_to_write(fr.array_bytes)
       IN  \/ /\ Throw("io", "munmap", {"munmap"})
              /\ UNCHANGED <<names, data, fds, maps, published, held>>
           \/ /\ munmap_ok(addr, len)
              /\ Return(fr.file, 0, <<>>, {})
              /\ Settle(names, data, fds, munmap(addr, len))
              /\ Publish("lambda")
              /\ UNCHANGED held

\* munmap(addr, bytes_to_write); return generated_filename.
WL_munmap ==
    /\ pc = "munmap_write"
    /\ UNCHANGED <<calls, allocs, ext>>
    /\ LET addr == fr.addr
           len  == bytes_to_write(fr.array_bytes)
       IN  \/ /\ Throw("io", "munmap", {"munmap"})
              /\ Settle(unlink(fr.file), data, fds, maps)
              /\ UNCHANGED <<published, held>>
           \/ /\ munmap_ok(addr, len)
              /\ Return(fr.file, 0, <<>>, {})
              /\ Settle(names, data, fds, munmap(addr, len))
              /\ Publish("lambda")
              /\ UNCHANGED held

(***************************************************************************)
(* mmap_bytes_from_shm(), read_bytes_from_shm(), munmap_bytes_from_shm().  *)
(***************************************************************************)
\* mmap_bytes_from_shm(file, array_bytes, type) is called.
mmap_bytes_from_shm ==
    /\ pc = "idle"
    /\ calls < MaxCalls
    /\ calls' = calls + 1
    /\ UNCHANGED <<allocs, ext>>
    /\ \E file \in Names \cup {EmptyName}, n \in 0..MaxN, type \in CallTypes :
          fr' = [NoFrame EXCEPT !.fn = "mmap", !.file = file,
                                !.array_bytes = n, !.type = type]
    /\ pc' = "open"
    /\ ret' = NoRet
    /\ UNCHANGED <<names, data, fds, maps, published, held>>

\* read_bytes_from_shm(file, array_bytes, type) is called; it begins with
\* mmap_bytes_from_shm(file, array_bytes, type).
read_bytes_from_shm ==
    /\ pc = "idle"
    /\ calls < MaxCalls
    /\ calls' = calls + 1
    /\ UNCHANGED <<allocs, ext>>
    /\ \E file \in Names \cup {EmptyName}, n \in 0..MaxN, type \in CallTypes :
          fr' = [NoFrame EXCEPT !.fn = "read", !.file = file,
                                !.array_bytes = n, !.type = type]
    /\ pc' = "open"
    /\ ret' = NoRet
    /\ UNCHANGED <<names, data, fds, maps, published, held>>

\* munmap_bytes_from_shm(file, array_bytes, type, addr) is called with a
\* pointer mmap_bytes_from_shm returned for these arguments.
munmap_bytes_from_shm ==
    /\ pc = "idle"
    /\ calls < MaxCalls
    /\ calls' = calls + 1
    /\ UNCHANGED <<allocs, ext>>
    /\ \E cap \in held :
          /\ fr' = [NoFrame EXCEPT !.fn = "munmap", !.file = cap.file,
                                   !.array_bytes = cap.array_bytes,
                                   !.type = cap.type, !.addr = cap.addr]
          /\ held' = held \ {cap}
    /\ pc' = "munmap"
    /\ ret' = NoRet
    /\ UNCHANGED <<names, data, fds, maps, published>>

\* The process is killed by SIGBUS: its descriptors and mappings go with it.
Crash ==
    /\ pc' = "idle"
    /\ ret' = [fn |-> fr.fn, kind |-> "SIGBUS", file |-> fr.file, addr |-> 0,
               data |-> <<>>, stage |-> "signal", failed |-> fr.failed,
               array_bytes |-> fr.array_bytes, type |-> fr.type,
               short |-> fr.short, mapped |-> fr.addr, invoked |-> Invoked,
               taken |-> fr.taken, jni |-> fr.jni,
               checked |-> fr.checked]
    /\ fr' = NoFrame
    /\ held' = {}
    /\ Settle(names, data, {}, {})
    /\ UNCHANGED published

\* The reader mapping the magic and the tag alone, without the payload.
bytes_to_read_header(array_bytes) == sizeof_HEADER_BYTES + sizeof_ArrayType

\* Total number of bytes the reader maps for array_bytes bytes of payload.
bytes_to_read(array_bytes) == array_bytes + sizeof_HEADER_BYTES + sizeof_ArrayType

\* The reader's open() with the writer's O_CREAT flag: a name that has no
\* file gets an empty one.
M_open_creates ==
    /\ pc = "open"
    /\ UNCHANGED <<calls, allocs, ext>>
    /\ IF fr.file = EmptyName \/ (~Exists(fr.file) /\ FreeInodes = {})
       THEN /\ Throw("io", "open", {"open"})
            /\ UNCHANGED <<names, data, fds, maps>>
       ELSE LET ino == IF Exists(fr.file) THEN names[fr.file]
                       ELSE CHOOSE i \in FreeInodes : TRUE
            IN  /\ Settle([names EXCEPT ![fr.file] = ino], data,
                          fds \cup {[ino |-> ino, by |-> "reader"]}, maps)
                /\ fr' = [fr EXCEPT !.fd = ino]
                /\ pc' = "fstat_read"
                /\ UNCHANGED ret
    /\ UNCHANGED <<published, held>>

\* The empty-name check and open(file, O_RDWR).
M_open ==
    /\ pc = "open"
    /\ UNCHANGED <<calls, allocs, ext>>
    /\ IF fr.file = EmptyName
       THEN /\ Throw("io", "name", {})
            /\ UNCHANGED <<names, data, fds, maps>>
       ELSE IF ~Exists(fr.file)
       THEN /\ Throw("io", "open", {"open"})
            /\ UNCHANGED <<names, data, fds, maps>>
       ELSE /\ Settle(names, data,
                      fds \cup {[ino |-> names[fr.file], by |-> "reader"]}, maps)
            /\ fr' = [fr EXCEPT !.fd = names[fr.file]]
            /\ pc' = "fstat_read"
            /\ UNCHANGED ret
    /\ UNCHANGED <<published, held>>

\* The smallest file size the reader accepts.
M_min_size == sizeof_HEADER_BYTES + 1

\* fstat(fd, &s) and a check that wants one byte after the magic and the tag.
M_fstat_wants_payload ==
    /\ pc = "fstat_read"
    /\ UNCHANGED <<calls, allocs, ext>>
    /\ IF st_size(fr.fd) < M_min_size + 1
       THEN /\ Throw("io", "small", {})
            /\ Settle(names, data, close(fr.fd, "reader"), maps)
       ELSE /\ pc' = "mmap_read"
            /\ UNCHANGED <<names, data, fds, maps, fr, ret>>
    /\ UNCHANGED <<published, held>>

\* fstat(fd, &s) and the check of the size of the file.
M_fstat ==
    /\ pc = "fstat_read"
    /\ UNCHANGED <<calls, allocs, ext>>
    /\ IF st_size(fr.fd) < M_min_size
       THEN /\ Throw("io", "small", {})
            /\ Settle(names, data, close(fr.fd, "reader"), maps)
       ELSE /\ pc' = "mmap_read"
            /\ UNCHANGED <<names, data, fds, maps, fr, ret>>
    /\ UNCHANGED <<published, held>>

\* mmap(NULL, bytes_to_read, PROT_READ | PROT_WRITE, MAP_SHARED, fd, 0): the
\* reader's mapping made as the writer makes its own.
M_mmap_writable ==
    /\ pc = "mmap_read"
    /\ UNCHANGED <<calls, allocs, ext>>
    /\ \/ /\ Throw("io", "mmap", {"mmap"})
          /\ Settle(unlink(fr.file), data, close(fr.fd, "reader"), maps)
       \/ \E base \in FreeBases :
             /\ Settle(names, data, fds,
                       maps \cup {[base |-> base,
                                   len |-> bytes_to_read(fr.array_bytes),
                                   ino |-> fr.fd, prot |-> "rw", shared |-> TRUE,
                                   by |-> "reader"]})
             /\ fr' = [fr EXCEPT !.addr = base]
             /\ pc' = "check_magic"
             /\ UNCHANGED ret
    /\ UNCHANGED <<published, held>>

\* mmap(NULL, bytes_to_read, PROT_READ, MAP_SHARED, fd, 0)
M_mmap ==
    /\ pc = "mmap_read"
    /\ UNCHANGED <<calls, allocs, ext>>
    /\ \/ /\ Throw("io", "mmap", {"mmap"})
          /\ Settle(unlink(fr.file), data, close(fr.fd, "reader"), maps)
       \/ \E base \in FreeBases :
             /\ Settle(names, data, fds,
                       maps \cup {[base |-> base,
                                   len |-> bytes_to_read(fr.array_bytes),
                                   ino |-> fr.fd, prot |-> "r", shared |-> TRUE,
                                   by |-> "reader"]})
             /\ fr' = [fr EXCEPT !.addr = base]
             /\ pc' = "check_magic"
             /\ UNCHANGED ret
    /\ UNCHANGED <<published, held>>

\* strncmp(s1, s2, n) == 0: at most n characters are compared, and none
\* after a NUL.
RECURSIVE strncmp_eq(_, _, _)
strncmp_eq(s1, s2, n) ==
    IF n = 0 \/ s1 = <<>> \/ s2 = <<>> THEN TRUE
    ELSE IF Head(s1) # Head(s2) THEN FALSE
    ELSE IF Head(s1) = 0 THEN TRUE
    ELSE strncmp_eq(Tail(s1), Tail(s2), n - 1)

\* close(fd); the first bytes of the mapping are not looked at.
M_check_magic_skipped ==
    /\ pc = "check_magic"
    /\ UNCHANGED <<calls, allocs, ext>>
    /\ fr' = [fr EXCEPT !.addr = @ + sizeof_HEADER_BYTES, !.fd = 0]
    /\ pc' = "check_type"
    /\ Settle(names, data, close(fr.fd, "reader"), maps)
    /\ UNCHANGED <<ret, published, held>>

\* close(fd); the first bytes of the mapping are compared with HEADER_BYTES.
M_check_magic ==
    /\ pc = "check_magic"
    /\ UNCHANGED <<calls, allocs, ext>>
    /\ LET m       == MapOf(fr.addr)
           content == data[m.ino]
       IN  IF Faults(content, fr.addr - m.base)
           THEN Crash
           ELSE /\ IF ~strncmp_eq(LoadSeq(content, fr.addr - m.base,
                                          sizeof_HEADER_BYTES),
                                  HEADER_BYTES, sizeof_HEADER_BYTES)
                   THEN /\ Throw("io", "magic", {})
                        /\ Settle(unlink(fr.file), data, close(fr.fd, "reader"), maps)
                   ELSE /\ fr' = [fr EXCEPT !.addr = @ + sizeof_HEADER_BYTES,
                                            !.fd = 0]
                        /\ pc' = "check_type"
                        /\ Settle(names, data, close(fr.fd, "reader"), maps)
                        /\ UNCHANGED ret
                /\ UNCHANGED <<published, held>>

\* The comparison with an expected type of UNKNOWN taken to match any tag.
type_differs_unless_unknown(file_array_type, type) ==
    file_array_type # type /\ type # UNKNOWN

\* file_array_type != (char)type
type_differs(file_array_type, type) == file_array_type # type

\* The type check whose successful path unlinks the file as the failing one
\* does.
M_check_type_unlinks ==
    /\ pc = "check_type"
    /\ UNCHANGED <<calls, allocs, ext>>
    /\ LET m               == MapOf(fr.addr)
           file_array_type == Load(data[m.ino], fr.addr - m.base)
       IN  /\ Settle(unlink(fr.file), data, fds, maps)
           /\ IF type_differs(file_array_type, fr.type)
              THEN /\ Throw("io", "type", {})
                   /\ UNCHANGED held
              ELSE IF fr.fn = "mmap"
              THEN /\ Return(fr.file, fr.addr + 1, <<>>, {})
                   /\ held' = held \cup
                         {[file |-> fr.file, array_bytes |-> fr.array_bytes,
                           type |-> fr.type, addr |-> fr.addr + 1]}
              ELSE /\ fr' = [fr EXCEPT !.addr = @ + 1]
                   /\ pc' = "malloc"
                   /\ UNCHANGED <<ret, held>>
    /\ UNCHANGED published

\* The byte after the magic is compared with the expected type; on success
\* the pointer to the payload is returned, or read_bytes_from_shm goes on.
M_check_type ==
    /\ pc = "check_type"
    /\ UNCHANGED <<calls, allocs, ext>>
    /\ LET m               == MapOf(fr.addr)
           file_array_type == Load(data[m.ino], fr.addr - m.base)
       IN  IF type_differs(file_array_type, fr.type)
           THEN /\ Throw("io", "type", {})
                /\ Settle(unlink(fr.file), data, fds, maps)
                /\ UNCHANGED held
           ELSE /\ UNCHANGED <<names, data, fds, maps>>
                /\ IF fr.fn = "mmap"
                   THEN /\ Return(fr.file, fr.addr + 1, <<>>, {})
                        /\ held' = held \cup
                              {[file |-> fr.file, array_bytes |-> fr.array_bytes,
                                type |-> fr.type, addr |-> fr.addr + 1]}
                   ELSE IF fr.fn = "nativeGet"
                   THEN /\ fr' = [fr EXCEPT !.addr = @ + 1, !.jni.data = fr.addr + 1]
                        /\ pc' = "SetArrayRegion"
                        /\ UNCHANGED <<ret, held>>
                   ELSE /\ fr' = [fr EXCEPT !.addr = @ + 1]
                        /\ pc' = "malloc"
                        /\ UNCHANGED <<ret, held>>
    /\ UNCHANGED published

\* void* data = malloc(array_bytes)
R_malloc ==
    /\ pc = "malloc"
    /\ UNCHANGED <<calls, allocs, ext>>
    /\ \/ /\ Throw("io", "malloc", {"malloc"})
          /\ Settle(unlink(fr.file), data, fds, maps)
       \/ /\ pc' = "memcpy"
          /\ UNCHANGED <<names, data, fds, maps, fr, ret>>
    /\ UNCHANGED <<published, held>>

\* memcpy(data, addr, array_bytes)
R_memcpy ==
    /\ pc = "memcpy"
    /\ UNCHANGED <<calls, allocs, ext>>
    /\ LET m       == MapOf(fr.addr)
           content == data[m.ino]
           from    == fr.addr - m.base
       IN  IF fr.array_bytes > 0 /\ Faults(content, from + fr.array_bytes - 1)
           THEN Crash
           ELSE /\ fr' = [fr EXCEPT !.out = LoadSeq(content, from, fr.array_bytes)]
                /\ pc' = "munmap"
                /\ UNCHANGED <<names, data, fds, maps, ret, published, held>>

\* munmap_bytes_from_shm() without its last line, the unlink(file) that
\* follows a successful munmap().
MU_munmap_keeps_file ==
    /\ pc = "munmap"
    /\ UNCHANGED <<calls, allocs, ext>>
    /\ LET file_addr  == fr.addr - (sizeof_HEADER_BYTES + sizeof_ArrayType)
           file_bytes == fr.array_bytes + sizeof_HEADER_BYTES + sizeof_ArrayType
       IN  \/ /\ Throw("io", "munmap", {"munmap"})
              /\ Settle(unlink(fr.file), data, fds, maps)
           \/ /\ munmap_ok(file_addr, file_bytes)
              /\ Return(fr.file, 0, fr.out, {})
              /\ Settle(names, data, fds, munmap(file_addr, file_bytes))
    /\ UNCHANGED <<published, held>>

\* munmap_bytes_from_shm(): the base of the mapping is recomputed from the
\* pointer to the payload, the mapping is removed and the file unlinked.
MU_munmap ==
    /\ pc = "munmap"
    /\ UNCHANGED <<calls, allocs, ext>>
    /\ LET file_addr  == fr.addr - (sizeof_HEADER_BYTES + sizeof_ArrayType)
           file_bytes == fr.array_bytes + sizeof_HEADER_BYTES + sizeof_ArrayType
       IN  \/ /\ Throw("io", "munmap", {"munmap"})
              /\ Settle(unlink(fr.file), data, fds, maps)
           \/ /\ munmap_ok(file_addr, file_bytes)
              /\ Return(fr.file, 0, fr.out, {})
              /\ Settle(unlink(fr.file), data, fds, munmap(file_addr, file_bytes))
    /\ UNCHANGED <<published, held>>

Next ==
    \/ write_bytes_to_shm_data
    \/ write_bytes_to_shm_lambda
    \/ open_file_for_write
    \/ W_create_filename
    \/ OFW_open
    \/ OFW_fstatvfs
    \/ WD_write_header
    \/ WD_write_type
    \/ WD_write_loop
    \/ WD_fstat
    \/ WL_lseek
    \/ WL_write_empty
    \/ WL_fstat
    \/ WL_mmap
    \/ WL_fill_header
    \/ WL_lambda
    \/ WL_munmap
    \/ mmap_bytes_from_shm
    \/ read_bytes_from_shm
    \/ munmap_bytes_from_shm
    \/ M_open
    \/ M_fstat
    \/ M_mmap
    \/ M_check_magic
    \/ M_check_type
    \/ R_malloc
    \/ R_memcpy
    \/ MU_munmap

Spec == Init /\ [][Next]_vars

(***************************************************************************)
(* fstat() that fails.  The three calls of fstat() are made without a look *)
(* at what they return: when one fails, struct stat is left as it was      *)
(* found on the stack and st_size is whatever those bytes hold.            *)
(***************************************************************************)
\* Values of an uninitialised st_size.
Garbage == Sizes

\* fstat(fd, &buffer) fails in the buffered write; the size check goes on.
WD_fstat_fails ==
    /\ pc = "fstat"
    /\ UNCHANGED <<calls, allocs, ext>>
    /\ \E garbage \in Garbage :
          IF garbage # WD_expected_size(fr.array_bytes)
          THEN /\ Throw("io", "size", {"fstat"})
               /\ Settle(unlink(fr.file), data, close(fr.fd, "writer"), maps)
               /\ UNCHANGED <<published, held>>
          ELSE /\ Return(fr.file, 0, <<>>, {"fstat"})
               /\ Settle(names, data, close(fr.fd, "writer"), maps)
               /\ Publish("data")
               /\ UNCHANGED held

\* fstat(fd, &buffer) fails in the mapped write; the size check goes on.
WL_fstat_fails ==
    /\ pc = "fstat_stretched"
    /\ UNCHANGED <<calls, allocs, ext>>
    /\ \E garbage \in Garbage :
          IF garbage # WL_expected_size(fr.array_bytes)
          THEN /\ Throw("io", "size", {"fstat"})
               /\ Settle(unlink(fr.file), data, close(fr.fd, "writer"), maps)
               /\ UNCHANGED <<published, held>>
          ELSE /\ fr' = [fr EXCEPT !.failed = @ \cup {"fstat"}]
               /\ pc' = "mmap_write"
               /\ UNCHANGED <<names, data, fds, maps, ret, published, held>>

\* fstat(fd, &s) fails in mmap_bytes_from_shm; the size check goes on.
M_fstat_fails ==
    /\ pc = "fstat_read"
    /\ UNCHANGED <<calls, allocs, ext>>
    /\ \E garbage \in Garbage :
          IF garbage < M_min_size
          THEN /\ Throw("io", "small", {"fstat"})
               /\ Settle(names, data, close(fr.fd, "reader"), maps)
          ELSE /\ fr' = [fr EXCEPT !.failed = @ \cup {"fstat"}]
               /\ pc' = "mmap_read"
               /\ UNCHANGED <<names, data, fds, maps, ret>>
    /\ UNCHANGED <<published, held>>

(***************************************************************************)
(* create_filename() called in a row by one thread: the clock does not go  *)
(* back between two calls and may show the same microsecond again; rand()  *)
(* returns any of its values.                                              *)
(***************************************************************************)
Ticks == 0..MaxTick
Salts == 0..MaxSalt

\* The microsecond of the latest call.
LastTick == IF allocs = <<>> THEN 0 ELSE allocs[Len(allocs)].tv_usec

create_filename_call ==
    /\ pc = "idle"
    /\ Len(allocs) < MaxAllocs
    /\ \/ /\ ret' = [NoRet EXCEPT !.fn = "create_filename",
                                  !.kind = "illegal_argument",
                                  !.stage = "create_filename",
                                  !.failed = {"gettimeofday"}]
          /\ UNCHANGED allocs
       \/ \E tv_usec \in Ticks, rnd \in Salts :
             LET filename == create_filename(0, tv_usec, ThreadId, rnd)
             IN  /\ tv_usec >= LastTick
                 /\ allocs' = Append(allocs, [tv_usec |-> tv_usec, rnd |-> rnd,
                                              tid |-> ThreadId, file |-> filename])
                 /\ ret' = [NoRet EXCEPT !.fn = "create_filename",
                                         !.kind = "ok", !.stage = "return",
                                         !.file = filename]
    /\ UNCHANGED <<names, data, fds, maps, pc, fr, published, held, calls, ext>>

NextAlloc == create_filename_call

SpecAlloc == Init /\ [][NextAlloc]_vars

\* create_filename() called by a second thread of the process.
create_filename_other ==
    /\ pc = "idle"
    /\ Len(allocs) < MaxAllocs
    /\ \/ /\ ret' = [NoRet EXCEPT !.fn = "create_filename",
                                  !.kind = "illegal_argument",
                                  !.stage = "create_filename",
                                  !.failed = {"gettimeofday"}]
          /\ UNCHANGED allocs
       \/ \E tv_usec \in Ticks, rnd \in Salts :
             LET filename == create_filename(0, tv_usec, OtherThreadId, rnd)
             IN  /\ tv_usec >= LastTick
                 /\ allocs' = Append(allocs, [tv_usec |-> tv_usec, rnd |-> rnd,
                                              tid |-> OtherThreadId, file |-> filename])
                 /\ ret' = [NoRet EXCEPT !.fn = "create_filename",
                                         !.kind = "ok", !.stage = "return",
                                         !.file = filename]
    /\ UNCHANGED <<names, data, fds, maps, pc, fr, published, held, calls, ext>>

NextThreads ==
    \/ create_filename_call
    \/ create_filename_other

SpecThreads == Init /\ [][NextThreads]_vars

(***************************************************************************)
(* char_to_array_type(), called with any character.                        *)
(***************************************************************************)
\* The values of a char.
Chars == (0 - 128)..127

\* The character literals of the switch, as the numbers they are in ASCII.
ascii == [z |-> 122, b |-> 98, s |-> 115, i |-> 105, j |-> 106, f |-> 102,
          d |-> 100]

\* The switch with a default that takes an unlisted character for a byte.
char_to_array_type_default_byte(c) ==
    CASE c = ascii.z -> TYPE_BOOLEAN
      [] c = ascii.b -> TYPE_BYTE
      [] c = ascii.s -> TYPE_SHORT
      [] c = ascii.i -> TYPE_INTEGER
      [] c = ascii.j -> TYPE_LONG
      [] c = ascii.f -> TYPE_FLOAT
      [] c = ascii.d -> TYPE_DOUBLE
      [] OTHER -> TYPE_BYTE

char_to_array_type(c) ==
    CASE c = ascii.z -> TYPE_BOOLEAN
      [] c = ascii.b -> TYPE_BYTE
      [] c = ascii.s -> TYPE_SHORT
      [] c = ascii.i -> TYPE_INTEGER
      [] c = ascii.j -> TYPE_LONG
      [] c = ascii.f -> TYPE_FLOAT
      [] c = ascii.d -> TYPE_DOUBLE
      [] OTHER -> UNKNOWN

\* char_to_array_type(c) is called: the argument and the result are kept.
char_to_array_type_call ==
    /\ pc = "idle"
    /\ \E c \in Chars :
          ret' = [NoRet EXCEPT !.fn = "char_to_array_type", !.kind = "ok",
                               !.stage = "return", !.data = <<c>>,
                               !.type = char_to_array_type(c)]
    /\ UNCHANGED <<names, data, fds, maps, pc, fr, published, held, calls,
                   allocs, ext>>

NextTypes == char_to_array_type_call

SpecTypes == Init /\ [][NextTypes]_vars

(***************************************************************************)
(* The exception classes: one is thrown with a message and caught by the   *)
(* first handler of a try block whose class it is or derives from.         *)
(***************************************************************************)
\* The classes with io made a subclass of illegal_argument.
BaseNested == [illegal_argument |-> "pjrmi_exception", io |-> "illegal_argument",
               out_of_memory |-> "pjrmi_exception",
               pjrmi_exception |-> "runtime_error"]

\* class X : public Base[X]
Base == [illegal_argument |-> "pjrmi_exception", io |-> "pjrmi_exception",
         out_of_memory |-> "pjrmi_exception",
         pjrmi_exception |-> "runtime_error"]

Thrown == {"illegal_argument", "io", "out_of_memory"}

\* catch (handler& e) takes an exception of class thrown.
RECURSIVE Catches(_, _)
Catches(handler, thrown) ==
    \/ handler = thrown
    \/ thrown \in DOMAIN Base /\ Catches(handler, Base[thrown])

\* Buffers a const char* msg points to: up to MaxMsg characters, 'H', 'i' or
\* NUL, and the NUL that ends them.
MsgChars == {0, 72, 105}
Messages ==
    {m \o <<0>> : m \in UNION {[1..n -> MsgChars] : n \in 0..MaxMsg}}

\* std::string(msg): the characters before the first NUL.
RECURSIVE std_string(_)
std_string(msg) ==
    IF msg = <<>> \/ Head(msg) = 0 THEN <<>>
    ELSE <<Head(msg)>> \o std_string(Tail(msg))

\* s.c_str()
c_str(str) == str \o <<0>>

\* The orders the handlers of the three classes are written in.
HandlerOrders ==
    {h \in [1..3 -> Thrown] : \A i, j \in 1..3 : i # j => h[i] # h[j]}

\* The first handler that takes the exception, "none" when none does.
Handler(handlers, thrown) ==
    IF \E i \in 1..Len(handlers) : Catches(handlers[i], thrown)
    THEN handlers[CHOOSE i \in 1..Len(handlers) :
                     /\ Catches(handlers[i], thrown)
                     /\ \A j \in 1..(i - 1) : ~Catches(handlers[j], thrown)]
    ELSE "none"

throw_illegal_argument ==
    /\ pc = "idle"
    /\ \E msg \in Messages :
          fr' = [NoFrame EXCEPT !.fn = "illegal_argument", !.data = msg]
    /\ pc' = "throw"
    /\ ret' = NoRet
    /\ UNCHANGED <<names, data, fds, maps, published, held, calls, allocs, ext>>

throw_io ==
    /\ pc = "idle"
    /\ \E msg \in Messages :
          fr' = [NoFrame EXCEPT !.fn = "io", !.data = msg]
    /\ pc' = "throw"
    /\ ret' = NoRet
    /\ UNCHANGED <<names, data, fds, maps, published, held, calls, allocs, ext>>

throw_out_of_memory ==
    /\ pc = "idle"
    /\ \E msg \in Messages :
          fr' = [NoFrame EXCEPT !.fn = "out_of_memory", !.data = msg]
    /\ pc' = "throw"
    /\ ret' = NoRet
    /\ UNCHANGED <<names, data, fds, maps, published, held, calls, allocs, ext>>

\* throw exception::X(msg) reaches the handlers of the caller; e.what() is
\* the string std::runtime_error made of msg.
catch_exception ==
    /\ pc = "throw"
    /\ \E handlers \in HandlerOrders :
          ret' = [NoRet EXCEPT !.fn = fr.fn,
                               !.kind = Handler(handlers, fr.fn),
                               !.stage = "catch",
                               !.data = c_str(std_string(fr.data))]
    /\ pc' = "idle"
    /\ fr' = NoFrame
    /\ UNCHANGED <<names, data, fds, maps, published, held, calls, allocs, ext>>

NextExceptions ==
    \/ throw_illegal_argument
    \/ throw_io
    \/ throw_out_of_memory
    \/ catch_exception

SpecExceptions == Init /\ [][NextExceptions]_vars

NextStat ==
    \/ Next
    \/ WD_fstat_fails
    \/ WL_fstat_fails
    \/ M_fstat_fails

SpecStat == Init /\ [][NextStat]_vars

(***************************************************************************)
(* Properties.                                                             *)
(***************************************************************************)
WriteFns == {"write_data", "write_lambda"}
ReadFns == {"mmap", "read"}
LibraryErrors == {"illegal_argument", "io", "out_of_memory"}

\* The handle was returned by a write in this mode for this length and type.
PublishedAs(file, modes, array_bytes, type) ==
    /\ file \in Names
    /\ published[file].mode \in modes
    /\ published[file].array_bytes = array_bytes
    /\ published[file].type = type

\* The array_bytes bytes a caller finds behind a pointer it holds.
Pointed(addr, array_bytes) ==
    LoadSeq(data[MapOf(addr).ino], addr - MapOf(addr).base, array_bytes)

\* C1: a payload written in buffered mode and read back with the same length
\* and type, by read_bytes_from_shm or through the pointer that
\* mmap_bytes_from_shm returned, is the payload that was written.
C1_RoundTrip ==
    /\ (/\ ret.fn = "read"
        /\ ret.kind = "ok"
        /\ PublishedAs(ret.file, {"data"}, ret.array_bytes, ret.type))
       => ret.data = published[ret.file].data
    /\ (/\ ret.fn = "mmap"
        /\ ret.kind = "ok"
        /\ PublishedAs(ret.file, {"data"}, ret.array_bytes, ret.type))
       => Pointed(ret.addr, ret.array_bytes) = published[ret.file].data

\* A buffered write of two bytes has been read back by read_bytes_from_shm.
C1_Witness ==
    /\ ret.fn = "read"
    /\ ret.kind = "ok"
    /\ ret.array_bytes = 2
    /\ PublishedAs(ret.file, {"data"}, ret.array_bytes, ret.type)

\* C2: when a write, buffered or mapped, returns its handle, the file is
\* 9 + array_bytes bytes long.
C2_SizeAtPublish ==
    (ret.fn \in WriteFns /\ ret.kind = "ok")
    => /\ Exists(ret.file)
       /\ Len(Content(ret.file)) = 9 + ret.array_bytes

\* The file a buffered write of payload and type leaves when each of its
\* write() calls writes all it was given.
BufferedFrame(payload, type) ==
    pwrite(pwrite(pwrite(<<>>, 0, HEADER_BYTES), sizeof_HEADER_BYTES, <<type>>),
           sizeof_HEADER_BYTES + sizeof_ArrayType, payload)

\* C3: a write that succeeds leaves the same file in both modes: the 8 bytes
\* of magic, the tag, the payload, and nothing else.
C3_SameFrame ==
    (ret.fn \in WriteFns /\ ret.kind = "ok")
    => /\ Exists(ret.file)
       /\ Content(ret.file) =
             BufferedFrame(published[ret.file].data, published[ret.file].type)

\* C4: once munmap_bytes_from_shm has returned or thrown, the file is gone.
C4_ReleaseRemoves ==
    (ret.fn = "munmap" /\ ret.kind \in {"ok", "io"}) => ~Exists(ret.file)

\* A release of a pointer to a written frame has thrown: munmap() failed.
C4_Witness ==
    /\ ret.fn = "munmap"
    /\ ret.kind = "io"
    /\ ret.stage = "munmap"
    /\ PublishedAs(ret.file, {"data", "lambda"}, ret.array_bytes, ret.type)

C6_ValidationFailureRemoves ==
    (ret.fn \in ReadFns /\ ret.stage \in {"small", "mmap", "magic", "type"})
    => (ret.kind = "io" /\ ~Exists(ret.file))

C8_SizeDiscrimination ==
    (/\ ret.fn \in ReadFns
     /\ ret.file \in Names
     /\ published[ret.file].mode # "none"
     /\ published[ret.file].array_bytes # ret.array_bytes)
    => ret.kind \in LibraryErrors

\* C9: a write for which the filesystem reports fewer free bytes than the
\* 9 + array_bytes it needs goes no further than the check: it throws
\* out_of_memory and no file has the generated name.
C9_OutOfSpace ==
    /\ ~fr.short
    /\ ret.short => (/\ ret.fn \in WriteFns
                     /\ ret.kind = "out_of_memory"
                     /\ ~Exists(ret.file))

\* A mapped write of an empty payload has met a filesystem with fewer than 9
\* free bytes.
C9_Witness ==
    /\ ret.short
    /\ ret.fn = "write_lambda"
    /\ ret.array_bytes = 0

\* C10: when read_bytes_from_shm returns, the buffer holds the array_bytes
\* bytes that follow the header in the file, the file is gone and the mapping
\* the call made is gone.
C10_ReadCopy ==
    [][(pc = "munmap" /\ fr.fn = "read" /\ ret'.kind = "ok")
       => LET content == data[MapOf(fr.addr).ino]
              header  == sizeof_HEADER_BYTES + sizeof_ArrayType
          IN  /\ Len(content) >= header + fr.array_bytes
                 => ret'.data = SubSeq(content, header + 1, header + fr.array_bytes)
              /\ PublishedAs(fr.file, {"data", "lambda"}, fr.array_bytes, fr.type)
                 => ret'.data = published[fr.file].data
              /\ Len(ret'.data) = fr.array_bytes
              /\ NoFileLeft(fr.file)
              /\ \A m \in maps' : m.base # MapOf(fr.addr).base]_vars

\* read_bytes_from_shm has returned the two bytes of a frame that a mapped
\* write left.
C10_Witness ==
    /\ ret.fn = "read"
    /\ ret.kind = "ok"
    /\ ret.data = <<2, 1>>
    /\ PublishedAs(ret.file, {"lambda"}, ret.array_bytes, ret.type)

\* The reader's mappings that begin sizeof_HEADER_BYTES + sizeof_ArrayType
\* bytes before the pointer addr and are 9 + array_bytes bytes long.
MappedFor(addr, array_bytes) ==
    {m \in maps : /\ m.base = addr - (sizeof_HEADER_BYTES + sizeof_ArrayType)
                  /\ m.len = array_bytes + sizeof_HEADER_BYTES + sizeof_ArrayType
                  /\ m.by = "reader"}

\* The name of a held pointer is still the name of the file it points into.
NamesMapped(cap) ==
    \E m \in MappedFor(cap.addr, cap.array_bytes) : names[cap.file] = m.ino

\* C11: a mmap_bytes_from_shm that returns a pointer leaves the file in place,
\* and while the pointer is held the file stays under its name: it goes only
\* when a reader-side call is made on the handle again, which for the one
\* reader of a frame is munmap_bytes_from_shm.
C11_OpenKeepsFile ==
    /\ []((ret.fn = "mmap" /\ ret.kind = "ok") => Exists(ret.file))
    /\ [][\A cap \in held :
             (NamesMapped(cap) /\ names'[cap.file] # names[cap.file])
             => (fr.file = cap.file /\ fr.fn \in ReadFns \cup {"munmap"})]_vars

\* munmap_bytes_from_shm has been called with a pointer to a written frame
\* and is about to unmap: the file is still there.
C11_Witness ==
    /\ pc = "munmap"
    /\ fr.fn = "munmap"
    /\ Exists(fr.file)
    /\ published[fr.file].mode # "none"

\* C12: when mmap_bytes_from_shm or read_bytes_from_shm throws io, the mapping
\* the call made, if it made one, is no longer mapped.
C12_FailureUnmaps ==
    (ret.fn \in ReadFns /\ ret.kind = "io" /\ ret.mapped # 0)
    => \A m \in maps :
          ~(m.base <= ret.mapped /\ ret.mapped < m.base + PageUp(m.len))

\* C13: when the callback of the mapped write throws, the caller sees the
\* throw and no file has the generated name.
C13_CallbackFailureDeletes ==
    (ret.fn = "write_lambda" /\ ret.stage = "lambda")
    => (ret.kind = "callback" /\ ~Exists(ret.file))

\* The lifecycle of the frame behind a handle.  A stage is the position of
\* the call at work on the frame or, between calls, what the directory, the
\* published handles and the held pointers say; its rank is its place in a
\* given order, 0 before the frame is created.
SpecOrder ==
    <<"ALLOCATED", "WRITTEN", "PUBLISHED", "OPENED", "VALIDATED", "MAPPED",
      "CONSUMED", "RELEASED">>
CodeOrder ==
    <<"ALLOCATED", "WRITTEN", "PUBLISHED", "OPENED", "MAPPED", "VALIDATED",
      "CONSUMED", "RELEASED">>
Idx(order, stage) == CHOOSE i \in 1..Len(order) : order[i] = stage

HeldCap(file) == \E cap \in held : cap.file = file
Gone(file) == published[file].mode # "none" /\ ~Exists(file)

Rank(order, file) ==
    IF Gone(file) THEN Idx(order, "RELEASED")
    ELSE IF fr.fn \in WriteFns /\ fr.file = file
    THEN IF pc = "open_file_for_write" THEN 0
         ELSE IF pc \in {"fstat", "munmap_write"} THEN Idx(order, "WRITTEN")
         ELSE Idx(order, "ALLOCATED")
    ELSE IF published[file].mode = "none" THEN 0
    ELSE IF fr.fn \in ReadFns /\ fr.file = file /\ pc # "open"
    THEN IF pc \in {"fstat_read", "mmap_read"} THEN Idx(order, "OPENED")
         ELSE IF pc \in {"check_magic", "check_type"}
         THEN Max(Idx(order, "OPENED"), Idx(order, "MAPPED"))
         ELSE IF pc \in {"malloc", "memcpy"}
         THEN Max(Idx(order, "MAPPED"), Idx(order, "VALIDATED"))
         ELSE Idx(order, "CONSUMED")
    ELSE IF HeldCap(file) \/ (fr.fn = "munmap" /\ fr.file = file)
    THEN Max(Idx(order, "MAPPED"), Idx(order, "VALIDATED"))
    ELSE Idx(order, "PUBLISHED")

\* A second reader-side call on a handle a pointer is held for: not what the
\* one reader of a frame does.
SecondReader(file) ==
    fr.file = file /\ fr.fn \in ReadFns \cup {"munmap"} /\ HeldCap(file)

\* The name has been given to a new frame while a pointer into the frame it
\* named before is still held.
Renamed(file) ==
    Exists(file) /\ \E cap \in held : cap.file = file /\ ~NamesMapped(cap)

\* A step of a call that does not throw moves the frame to the next stage of
\* the order (CONSUMED may be left out), or leaves it where it is, or begins
\* a new frame under a name whose frame is gone.  A name that stands for two
\* frames at once is left out.
InOrder(order) ==
    \A file \in Names :
       (/\ ret'.kind \in {"none", "ok"}
        /\ ~SecondReader(file)
        /\ ~SecondReader(file)'
        /\ ~Renamed(file)
        /\ ~Renamed(file)')
       => LET r == Rank(order, file)
              q == Rank(order, file)'
          IN  \/ q = r
              \/ q = r + 1
              \/ r = Idx(order, "CONSUMED") - 1 /\ q = Idx(order, "RELEASED")
              \/ /\ r \in {0, Idx(order, "RELEASED")}
                 /\ q \in {0, 1}
                 /\ published'[file].mode = "none"

\* C14: a frame goes through ALLOCATED, WRITTEN, PUBLISHED, OPENED, VALIDATED,
\* MAPPED, (CONSUMED), RELEASED in this order: the reader has validated the
\* frame before it maps it, and no stage is skipped or visited again.
C14_LifecycleOrder == [][InOrder(SpecOrder)]_vars

\* C14 as the code has it: the reader maps the file once it has opened it and
\* checked its size, and validates the magic and the tag through the mapping:
\* ALLOCATED, WRITTEN, PUBLISHED, OPENED, MAPPED, VALIDATED, (CONSUMED),
\* RELEASED, no stage skipped or visited again.
C14_LifecycleOrderAmended == [][InOrder(CodeOrder)]_vars

\* The reader has mapped a written frame and has not yet looked at its magic.
C14_Witness ==
    /\ pc = "check_magic"
    /\ fr.file \in Names
    /\ published[fr.file].mode # "none"
    /\ \E m \in maps : m.base = fr.addr /\ m.by = "reader"

\* C15: once munmap_bytes_from_shm has run for a handle the frame is gone for
\* good: the name gets a file again only when a writer creates a new frame
\* under it, and until then mmap_bytes_from_shm and read_bytes_from_shm on the
\* handle throw io at open() and hand out no pointer.
C15_ReleasedIsTerminal ==
    /\ []((ret.fn = "munmap" /\ published[ret.file].mode # "none")
          => Gone(ret.file))
    /\ [][\A file \in Names :
             Gone(file)
             => \/ Gone(file)'
                \/ /\ fr.fn \in WriteFns
                   /\ fr.file = file
                   /\ pc = "open_file_for_write"]_vars
    /\ [][(/\ pc = "open"
           /\ fr.file \in Names
           /\ Gone(fr.file))
          => (/\ pc' = "idle"
              /\ ret'.kind = "io"
              /\ ret'.addr = 0
              /\ held' = held)]_vars

\* A frame has been written, read and released by read_bytes_from_shm, and
\* a later mmap_bytes_from_shm on its handle has thrown at open().
C15_Witness ==
    /\ ret.fn = "mmap"
    /\ ret.kind = "io"
    /\ ret.stage = "open"
    /\ ret.file \in Names
    /\ Gone(ret.file)
    /\ maps = {}

\* Who has inode i open or mapped.
WriterHolds(i) ==
    \/ \E d \in fds : d.ino = i /\ d.by = "writer"
    \/ \E m \in maps : m.ino = i /\ m.by = "writer"
ReaderHolds(i) ==
    \/ \E d \in fds : d.ino = i /\ d.by = "reader"
    \/ \E m \in maps : m.ino = i /\ m.by = "reader"

\* C16: when a write returns its handle the writer has closed its descriptor
\* and removed its mapping, and it never holds the file of a returned handle
\* again: the writer and a reader that opens the file after the handle was
\* returned never have it open or mapped at the same time.
C16_NoOverlap ==
    /\ (ret.fn \in WriteFns /\ ret.kind = "ok")
       => (Exists(ret.file) /\ ~WriterHolds(names[ret.file]))
    /\ \A file \in Names :
          (Exists(file) /\ published[file].mode # "none")
          => ~WriterHolds(names[file])
    /\ \A i \in Inodes :
          (WriterHolds(i) /\ ReaderHolds(i))
          => \A file \in Names :
                names[file] = i => published[file].mode = "none"

\* The reader has opened the file of a handle a mapped write returned and is
\* about to map it.
C16_Witness ==
    /\ pc = "mmap_read"
    /\ fr.file \in Names
    /\ published[fr.file].mode = "lambda"
    /\ ReaderHolds(names[fr.file])

\* The entry points that are handed a handle, and a call of one of them with
\* the empty handle.
HandleFns == {"open_file_for_write", "mmap", "read"}
EmptyHandleCall(f) == f.fn \in HandleFns /\ f.file = EmptyName

\* C17: open_file_for_write, mmap_bytes_from_shm and read_bytes_from_shm
\* called with an empty handle throw illegal_argument, and no file is
\* created, changed or removed.
C17_EmptyHandle ==
    /\ []((EmptyHandleCall(ret) /\ ret.kind # "none")
          => ret.kind = "illegal_argument")
    /\ [][EmptyHandleCall(fr) => UNCHANGED <<names, data>>]_vars

\* C17 as the code has it: with an empty handle open_file_for_write throws
\* illegal_argument, mmap_bytes_from_shm and read_bytes_from_shm throw io;
\* none of them creates, changes or removes a file, or maps anything.
C17_EmptyHandleAmended ==
    /\ []((EmptyHandleCall(ret) /\ ret.kind # "none")
          => /\ ret.fn = "open_file_for_write" => ret.kind = "illegal_argument"
             /\ ret.fn \in ReadFns => ret.kind = "io")
    /\ [][EmptyHandleCall(fr)
          => (pc' = "idle" /\ UNCHANGED <<names, data, fds, maps, held>>)]_vars

\* open_file_for_write has been called with the empty name and has thrown.
C17_Witness ==
    /\ ret.fn = "open_file_for_write"
    /\ ret.file = EmptyName
    /\ ret.kind = "illegal_argument"

\* The calls that hand a handle, a pointer or a buffer to their caller.
StorageFns == WriteFns \cup ReadFns \cup {"munmap"}

\* C18: a call in which open, write, fstat, lseek, mmap or munmap failed does
\* not return: it throws.
C18_NothingSwallowed ==
    (ret.fn \in StorageFns /\ ret.kind = "ok") => ret.failed = {}

\* C19: the pointer mmap_bytes_from_shm returns is the base of its mapping
\* plus 9, and the mapping is 9 + array_bytes bytes long; a release that
\* succeeds removes that mapping, all of it, and no other mapping.
C19_PointerCoupling ==
    /\ [] ((ret.fn = "mmap" /\ ret.kind = "ok")
              => MappedFor(ret.addr, ret.array_bytes) # {})
    /\ [] (\A cap \in held : MappedFor(cap.addr, cap.array_bytes) # {})
    /\ [][(pc = "munmap" /\ ret'.kind = "ok")
            => /\ MappedFor(fr.addr, fr.array_bytes) # {}
               /\ maps' = maps \ MappedFor(fr.addr, fr.array_bytes)]_vars

\* A release has returned, and a mapping of another call is still there.
C19_Witness ==
    /\ ret.fn \in {"munmap", "read"}
    /\ ret.kind = "ok"
    /\ \E cap \in held : MappedFor(cap.addr, cap.array_bytes) # {}

\* C20: the handles create_filename() returns to one thread are pairwise
\* distinct, calls within one microsecond included.
C20_DistinctHandles ==
    \A i, j \in 1..Len(allocs) : i # j => allocs[i].file # allocs[j].file

\* The characters of a handle after "/dev/shm/".
Basename(file) == SubSeq(file, Len(DevShm) + 1, Len(file))

\* The pieces of s between its dots.
RECURSIVE Fields(_)
Fields(s) ==
    IF s = <<>> THEN << <<>> >>
    ELSE LET f == Fields(Tail(s))
         IN  IF Head(s) = "." THEN << <<>> >> \o f
             ELSE << <<Head(s)>> \o f[1] >> \o Tail(f)

IsDigit(c) == \E d \in 0..9 : Digit(d) = c
DigitValue(c) == CHOOSE d \in 0..9 : Digit(d) = c

\* The number a string of decimal digits stands for.
RECURSIVE from_string(_)
from_string(s) ==
    IF s = <<>> THEN 0
    ELSE from_string(SubSeq(s, 1, Len(s) - 1)) * 10 + DigitValue(s[Len(s)])

\* "/dev/shm/" followed by three non-empty strings of digits with a dot
\* between them, and no further "/".
WellFormed(file) ==
    /\ Len(file) > Len(DevShm)
    /\ SubSeq(file, 1, Len(DevShm)) = DevShm
    /\ LET f == Fields(Basename(file))
       IN  /\ Len(f) = 3
           /\ \A k \in 1..3 : /\ f[k] # <<>>
                               /\ \A n \in 1..Len(f[k]) : IsDigit(f[k][n])

\* The time, the thread id and the rand() value read back from a handle.
Parsed(file) ==
    LET f == Fields(Basename(file))
    IN  [time |-> from_string(f[1]), tid |-> from_string(f[2]),
         rnd |-> from_string(f[3])]

\* C21: a handle create_filename() returns is "/dev/shm/" + the time in
\* microseconds + "." + the thread id + "." + rand(), and two handles made
\* from a different time, thread id or rand() value differ.
C21_HandleForm ==
    /\ \A i \in 1..Len(allocs) :
          LET a == allocs[i]
          IN  /\ WellFormed(a.file)
              /\ Parsed(a.file) = [time |-> TimeOf(0, a.tv_usec), tid |-> a.tid,
                                   rnd |-> a.rnd]
    /\ \A i, j \in 1..Len(allocs) :
          (\/ allocs[i].tv_usec # allocs[j].tv_usec
           \/ allocs[i].tid # allocs[j].tid
           \/ allocs[i].rnd # allocs[j].rnd)
          => allocs[i].file # allocs[j].file

\* Two threads got a handle in the same microsecond with the same rand()
\* value, and one thread got two handles that differ in rand() alone.
C21_Witness ==
    /\ Len(allocs) = 3
    /\ allocs[1].tid # allocs[2].tid
    /\ allocs[1].tv_usec = allocs[2].tv_usec
    /\ allocs[1].rnd = allocs[2].rnd
    /\ allocs[3].tid = allocs[2].tid
    /\ allocs[3].tv_usec = allocs[2].tv_usec
    /\ allocs[3].rnd # allocs[2].rnd

TagChars ==
    {ascii.z, ascii.b, ascii.s, ascii.i, ascii.j, ascii.f, ascii.d}

\* C23: char_to_array_type takes 'z', 'b', 's', 'i', 'j', 'f', 'd' to
\* TYPE_BOOLEAN, TYPE_BYTE, TYPE_SHORT, TYPE_INTEGER, TYPE_LONG, TYPE_FLOAT,
\* TYPE_DOUBLE and every other character to UNKNOWN; the seven tags differ
\* from each other, and the character of a supported type is taken back to
\* that type.
C23_TypeTags ==
    (ret.fn = "char_to_array_type") =>
        LET c == ret.data[1]
            t == ret.type
        IN  /\ c = ascii.z => t = TYPE_BOOLEAN
            /\ c = ascii.b => t = TYPE_BYTE
            /\ c = ascii.s => t = TYPE_SHORT
            /\ c = ascii.i => t = TYPE_INTEGER
            /\ c = ascii.j => t = TYPE_LONG
            /\ c = ascii.f => t = TYPE_FLOAT
            /\ c = ascii.d => t = TYPE_DOUBLE
            /\ c \notin TagChars => t = UNKNOWN
            /\ Cardinality(SupportedTypes) = 7
            /\ UNKNOWN \notin SupportedTypes
            /\ \A type \in SupportedTypes : c = type => t = type
            /\ t \in SupportedTypes => c = t

\* char_to_array_type('j') has returned TYPE_LONG.
C23_Witness ==
    /\ ret.fn = "char_to_array_type"
    /\ ret.data = <<ascii.j>>
    /\ ret.type = TYPE_LONG

\* strcmp(s1, s2) == 0
strcmp_eq(s1, s2) == std_string(s1) = std_string(s2)

\* C24: illegal_argument, io and out_of_memory are three different classes,
\* none a base of another: an exception thrown as one of them with a message
\* is caught by the handler of that class, in whatever order the handlers
\* are, and what() is the message it was thrown with.
C24_KindsDistinct ==
    [][pc = "throw"
       => /\ ret'.kind = fr.fn
          /\ ret'.kind \in Thrown
          /\ strcmp_eq(ret'.data, fr.data)
          /\ \A h, e \in Thrown : Catches(h, e) <=> h = e]_vars

\* An io thrown with "Hi" has been caught as io with "Hi".
C24_Witness ==
    /\ ret.stage = "catch"
    /\ ret.fn = "io"
    /\ ret.kind = "io"
    /\ ret.data = <<72, 105, 0>>

\* C25: when the callback of the mapped write is entered the magic and the
\* tag are in the mapping and the pointer it gets is the base of the mapping
\* plus 9; a mapped write that returns has entered the callback once, and
\* one that fails before the mapping exists has not entered it.
C25_CallbackOnce ==
    /\ [] ((ret.fn = "write_lambda" /\ ret.kind = "ok") => ret.invoked = 1)
    /\ [] ((ret.fn = "write_lambda" /\ ret.kind \notin {"ok", "none"}
               /\ ret.mapped = 0)
             => ret.invoked = 0)
    /\ [] ((fr.fn = "write_lambda" /\ fr.addr = 0) => fr.invoked = 0)
    /\ [] (pc = "lambda"
             => /\ fr.invoked = 0
                /\ \E m \in maps :
                      /\ m.by = "writer"
                      /\ m.prot = "rw"
                      /\ m.len = bytes_to_write(fr.array_bytes)
                      /\ fr.file_addr = m.base + sizeof_HEADER_BYTES + sizeof_ArrayType
                      /\ LoadSeq(data[m.ino], 0, sizeof_HEADER_BYTES) = HEADER_BYTES
                      /\ Load(data[m.ino], sizeof_HEADER_BYTES) = fr.type)

\* A mapped write of the longest payload has returned.
C25_Witness ==
    /\ ret.fn = "write_lambda"
    /\ ret.kind = "ok"
    /\ ret.invoked = 1
    /\ ret.array_bytes = MaxN

\* C26: the buffered write returns a handle only when the file holds the
\* magic, the tag and the whole payload.  After a write() that failed, or a
\* short write of the magic or the tag, which nothing completes, the size of
\* the file is not 9 + N: the file is unlinked and io is thrown.
C26_BufferedWriteComplete ==
    /\ (ret.fn = "write_data" /\ ret.kind = "ok")
          => /\ "write" \notin ret.failed
             /\ Exists(ret.file)
             /\ Content(ret.file) =
                   HEADER_BYTES \o <<ret.type>> \o published[ret.file].data
             /\ Len(published[ret.file].data) = ret.array_bytes
    /\ (ret.fn = "write_data" /\ "write" \in ret.failed)
          => /\ ret.kind = "io"
             /\ ret.stage = "size"
             /\ ~Exists(ret.file)
    /\ (pc = "fstat" /\ ("write" \in fr.failed \/ fr.position < fr.array_bytes))
          => st_size(fr.fd) # bytes_to_write(fr.array_bytes)

\* A buffered write whose write() failed has thrown io at the size check.
C26_Witness ==
    /\ ret.fn = "write_data"
    /\ "write" \in ret.failed
    /\ ret.kind = "io"
    /\ ret.stage = "size"
    /\ ret.array_bytes = MaxN
    /\ ~Exists(ret.file)

\* The positions of a write up to and including the check of the free space.
UpToSpaceCheck == {"create_filename", "open_file_for_write", "fstatvfs"}

\* C27: in both writers the free space is checked when the file has been
\* created and before a byte is written to it or it is made longer: up to
\* and including the check no file gets a byte, the check finds the file
\* there and empty, and a write that fails the check leaves no file.
C27_SpaceCheckFirst ==
    /\ [] ((fr.fn \in WriteFns /\ pc = "fstatvfs")
             => /\ Exists(fr.file)
                /\ names[fr.file] = fr.fd
                /\ data[fr.fd] = <<>>
                /\ fr.off = 0
                /\ \A m \in maps : m.ino # fr.fd)
    /\ [][(fr.fn \in WriteFns /\ pc \in UpToSpaceCheck)
            => \A i \in Inodes : data'[i] # data[i] => data'[i] = <<>>]_vars
    /\ [][(fr.fn \in WriteFns /\ pc = "fstatvfs" /\ pc' # "idle")
            => /\ pc' = IF fr.fn = "write_data" THEN "write_header" ELSE "lseek"
               /\ UNCHANGED <<names, data>>]_vars
    /\ [] ((ret.fn \in WriteFns /\ ret.kind = "out_of_memory")
             => (ret.stage = "space" /\ ~Exists(ret.file)))

\* A mapped write has failed the check of the free space.
C27_Witness ==
    /\ ret.fn = "write_lambda"
    /\ ret.kind = "out_of_memory"
    /\ ret.stage = "space"
    /\ ret.array_bytes = MaxN
    /\ \A i \in Inodes : data[i] = <<>>

(***************************************************************************)
(* open_file_for_write() on its own, on a path that may hold a file.       *)
(***************************************************************************)
\* open_file_for_write(file, bytes_to_write) with a name of the directory,
\* whether a file is there or not.
open_file_for_write_named ==
    /\ pc = "idle"
    /\ calls < MaxCalls
    /\ calls' = calls + 1
    /\ UNCHANGED <<allocs, ext>>
    /\ \E file \in Names, n \in 0..MaxN :
          fr' = [NoFrame EXCEPT !.fn = "open_file_for_write", !.file = file,
                                !.array_bytes = n]
    /\ pc' = "open_file_for_write"
    /\ ret' = NoRet
    /\ UNCHANGED <<names, data, fds, maps, published, held>>

NextOpener ==
    \/ open_file_for_write
    \/ open_file_for_write_named
    \/ OFW_open
    \/ OFW_fstatvfs

SpecOpener == Init /\ [][NextOpener]_vars

\* The call in progress is open_file_for_write() and this step ends it with
\* an exception.
OpenerThrows ==
    /\ fr.fn = "open_file_for_write"
    /\ pc' = "idle"
    /\ ret'.kind \in LibraryErrors

\* C28 (as stated): on every error path of open_file_for_write (empty name,
\* create failure, filesystem-stat failure, insufficient space) no file
\* exists at the given path when the error is raised, and no descriptor
\* opened by the call stays open.
C28_NoDanglingFile ==
    [][OpenerThrows =>
          /\ NoFileLeft(fr.file)
          /\ \A d \in fds' : ~(d.ino = fr.fd /\ d.by = "writer")]_vars

\* C28 (amended): an error raised before or by open() leaves the directory,
\* the files and the descriptors as they were before the call, so that a
\* file that was at the path is still there; an error raised after open()
\* (fstatvfs() failure, insufficient space) leaves no file at the path and
\* the call's descriptor closed.
C28Amended_NoFileOfItsOwn ==
    [][OpenerThrows =>
          /\ ret'.stage \in {"open_file_for_write", "open", "fstatvfs", "space"}
          /\ ret'.stage \in {"open_file_for_write", "open"}
                => UNCHANGED <<names, data, fds>>
          /\ ret'.stage \in {"fstatvfs", "space"}
                => /\ NoFileLeft(fr.file)
                   /\ \A d \in fds' : ~(d.ino = fr.fd /\ d.by = "writer")]_vars

\* open() failed on a path that held a file, and the file is still there.
C28_Witness ==
    /\ ret.fn = "open_file_for_write"
    /\ ret.kind = "io"
    /\ ret.stage = "open"
    /\ Exists(ret.file)
    /\ Content(ret.file) # <<>>

\* The reader's call in progress is at the check of the size of a file of
\* `size' bytes.
SizeChecked(size) ==
    /\ pc = "fstat_read"
    /\ fr.fn \in ReadFns
    /\ st_size(fr.fd) = size

\* The step ends the call with io at the check of the size, nothing mapped.
RejectedForSize ==
    /\ pc' = "idle"
    /\ ret'.kind = "io"
    /\ ret'.stage = "small"
    /\ ret'.mapped = 0
    /\ "mmap" \notin ret'.failed
    /\ maps' = maps

\* C29 (as stated): mmap_bytes_from_shm rejects with io, before it maps,
\* every file smaller than the header plus one byte, the header being the 8
\* bytes of magic and the tag: every file of fewer than 10 bytes.
C29_RejectsBelowHeaderPlusOne ==
    [][\A size \in 0..(sizeof_HEADER_BYTES + sizeof_ArrayType) :
          SizeChecked(size) => RejectedForSize]_vars

\* C29 (amended): mmap_bytes_from_shm rejects with io, before it maps, the
\* files of fewer than 9 bytes (the 8 bytes of magic and the tag) and no
\* others: a file of 9 bytes or more goes on to mmap().
C29Amended_RejectsBelowHeader ==
    [][\A size \in Sizes :
          SizeChecked(size) =>
             IF size < 9 THEN RejectedForSize
             ELSE pc' = "mmap_read" /\ UNCHANGED <<names, data, fds, maps>>]_vars

\* A file of 9 bytes, a frame with no payload, has passed the check of the
\* size and has been mapped, and a pointer to it returned.
C29_Witness ==
    /\ ret.fn = "mmap"
    /\ ret.kind = "ok"
    /\ Exists(ret.file)
    /\ Len(Content(ret.file)) = 9

\* The step is the one in which mmap_bytes_from_shm gets past its last
\* check: it returns the pointer, or read_bytes_from_shm goes on with it.
HandsOutPointer ==
    /\ fr.fn \in ReadFns
    /\ \/ fr.fn = "mmap" /\ ret'.kind = "ok"
       \/ fr.fn = "read" /\ pc' = "malloc"

\* C30: mmap_bytes_from_shm hands out a pointer only when the first 8 bytes
\* of the file are HEADER_BYTES and the 9th is the expected type; the magic
\* is compared before the type, and the payload is read (by the memcpy of
\* read_bytes_from_shm) only after both comparisons.
C30_HeaderChecked ==
    [][/\ HandsOutPointer =>
             /\ pc = "check_type"
             /\ LET content == data[MapOf(fr.addr).ino]
                IN  /\ Len(content) >= sizeof_HEADER_BYTES + sizeof_ArrayType
                    /\ SubSeq(content, 1, sizeof_HEADER_BYTES) = HEADER_BYTES
                    /\ content[sizeof_HEADER_BYTES + 1] = fr.type
             /\ fr.addr = MapOf(fr.addr).base + sizeof_HEADER_BYTES
       /\ pc' = "check_type" => pc = "check_magic"
       /\ pc' = "memcpy" => pc = "malloc"]_vars

\* mmap_bytes_from_shm has returned the pointer to the two bytes of payload
\* of a frame, 9 bytes into its mapping.
C30_Witness ==
    /\ ret.fn = "mmap"
    /\ ret.kind = "ok"
    /\ ret.addr = MapOf(ret.addr).base + sizeof_HEADER_BYTES + sizeof_ArrayType
    /\ ret.array_bytes = 2

\* The step is the one on which a write returns its handle.
WriteReturns ==
    /\ fr.fn \in WriteFns
    /\ pc' = "idle"
    /\ ret'.kind = "ok"

\* C31: the step on which write_bytes_to_shm returns the handle, in either
\* mode, leaves the file under its name, with the bytes it had, and leaves the
\* writer without a descriptor and without a mapping on it.
C31_WriterLeavesFile ==
    [][WriteReturns =>
          /\ ret'.file = fr.file
          /\ names[fr.file] # 0
          /\ names' = names
          /\ data'[names[fr.file]] = data[names[fr.file]]
          /\ \A d \in fds' : d.ino # names[fr.file]
          /\ \A m \in maps' : m.ino # names[fr.file]]_vars

\* The third call, a mapped write, has returned its handle and the file is
\* there.
C31_Witness ==
    /\ ret.fn = "write_lambda"
    /\ ret.kind = "ok"
    /\ Exists(ret.file)
    /\ published[ret.file].mode = "lambda"
    /\ calls = 3

(***************************************************************************)
(* Writes whose handle is the name of a file that is there.                *)
(***************************************************************************)
NextCollide ==
    \/ Next
    \/ W_create_filename_taken

SpecCollide == Init /\ [][NextCollide]_vars

\* C32: open_file_for_write on a name that has a file leaves, when open()
\* succeeds, the file under that name with no bytes; and a write whose handle
\* was the name of a file returns it with the new frame in the file and
\* nothing of what the file held: the magic, the tag and the payload of this
\* write, followed by at most the one byte the mapped writer adds.
C32_CollisionReplaces ==
    /\ [][(pc = "open_file_for_write" /\ pc' = "fstatvfs" /\ Exists(fr.file))
          => /\ names'[fr.file] = names[fr.file]
             /\ data'[names[fr.file]] = <<>>
             /\ published'[fr.file] = NoPub]_vars
    /\ [](/\ ret.fn \in WriteFns
          /\ ret.kind = "ok"
          /\ ret.taken # "no"
          => /\ Exists(ret.file)
             /\ published[ret.file].array_bytes = ret.array_bytes
             /\ LET frame == BufferedFrame(published[ret.file].data, ret.type)
                IN  Content(ret.file) \in {frame, frame \o <<0>>})

\* A buffered write of no bytes has been given the name of a frame a mapped
\* write had published, and has returned it.
C32_Witness ==
    /\ ret.fn = "write_data"
    /\ ret.kind = "ok"
    /\ ret.taken = "lambda"
    /\ ret.array_bytes = 0
    /\ Len(Content(ret.file)) = 9

\* The step on which the reader's mmap() succeeds adds one mapping, of the
\* file the call opened, from its first byte, 9 + array_bytes bytes long and
\* shared, with protection prot.
ReaderMaps(prot) ==
    (pc = "mmap_read" /\ pc' = "check_magic")
    => \E m \in maps' :
          /\ maps' = maps \cup {m}
          /\ m \notin maps
          /\ m.base = fr'.addr
          /\ m.ino = fr.fd
          /\ m.len = 9 + fr.array_bytes
          /\ m.shared
          /\ m.prot = prot

\* C33 (as stated): the mapping mmap_bytes_from_shm makes covers the 9 + N
\* bytes of the expected frame from offset 0 and is shared and read-write.
C33_MapsFrameReadWrite == [][ReaderMaps("rw")]_vars

\* C33 (amended): the mapping mmap_bytes_from_shm makes covers the 9 + N
\* bytes of the expected frame from offset 0 and is shared and read-only.
C33Amended_MapsFrameReadOnly == [][ReaderMaps("r")]_vars

\* The reader, told to expect two bytes of payload, has mapped 11 bytes for
\* reading.
C33_Witness ==
    /\ pc = "check_magic"
    /\ fr.array_bytes = 2
    /\ \E m \in maps : /\ m.base = fr.addr
                       /\ m.len = 11
                       /\ m.prot = "r"
                       /\ m.by = "reader"

(***************************************************************************)
(* The Python extension: create_jvm(), connect(), disconnect() and the     *)
(* PJRmiPipe they make, use and delete.  The interpreter makes one call at *)
(* a time.                                                                 *)
(***************************************************************************)
shm == <<names, data, fds, maps, pc, fr, ret, published, held, allocs>>

\* What create_jvm() may be given: three tuples of strings, or arguments
\* that PyArg_ParseTuple, PyTuple_Check or PyStr_AsUTF8AndSize refuse.
PyArgs == {"ok", "parse", "classpath", "java_args", "app_args", "string"}

\* The Python exception each refused argument ends in.
ArgError(args) ==
    CASE args = "classpath" -> "ValueError: classpath was not a tuple"
      [] args = "java_args" -> "ValueError: java_args was not a tuple"
      [] args = "app_args"  -> "ValueError: java_args was not a tuple"
      [] OTHER              -> "TypeError"

\* The call in progress ends with the Python exception err set.
PyErr(err) == ext' = [ext EXCEPT !.pc = "idle", !.err = err, !.args = "none"]

\* _create_jvm(): refused when _pipe is set, or when the arguments are not
\* what it wants; otherwise new PJRmiPipe(...) is entered.
py_create_jvm ==
    /\ ext.pc = "idle"
    /\ calls < MaxPyCalls
    /\ calls' = calls + 1
    /\ UNCHANGED shm
    /\ \E args \in PyArgs :
          IF ext.pipe # "NULL"
          THEN PyErr("RuntimeError: JVM already exists")
          ELSE IF args # "ok"
          THEN PyErr(ArgError(args))
          ELSE ext' = [ext EXCEPT !.pc = "PJRmiPipe", !.err = "none",
                                  !.args = args]

\* The constructor that does not look at _have_instance.
PJRmiPipe_unguarded ==
    /\ ext.pc = "PJRmiPipe"
    /\ UNCHANGED <<shm, calls>>
    /\ ext' = [ext EXCEPT !.have_instance = TRUE, !.pc = "JNI_CreateJavaVM"]

\* PJRmiPipe::PJRmiPipe(): throws if _have_instance, sets it otherwise.  The
\* exception is caught in _create_jvm().
PJRmiPipe ==
    /\ ext.pc = "PJRmiPipe"
    /\ UNCHANGED <<shm, calls>>
    /\ IF ext.have_instance
       THEN PyErr("RuntimeError: Can't create JVM: Only one JVM instance")
       ELSE ext' = [ext EXCEPT !.have_instance = TRUE, !.pc = "JNI_CreateJavaVM"]

\* JNI_CreateJavaVM(&_jvm, &_env, &vm_args): the constructor throws when the
\* result is not JNI_OK.
PJRmiPipe_CreateJavaVM ==
    /\ ext.pc = "JNI_CreateJavaVM"
    /\ UNCHANGED <<shm, calls>>
    /\ \/ PyErr("RuntimeError: Can't create JVM: Failed to create Java VM")
       \/ ext' = [ext EXCEPT !.jvms = @ + 1, !.pc = "FindClass"]

\* The rest of the constructor: a class or a method is not found, or a Java
\* exception is pending, and the constructor throws with the JavaVM running;
\* or the object is complete and _create_jvm() stores it in _pipe.
PJRmiPipe_lookup ==
    /\ ext.pc = "FindClass"
    /\ UNCHANGED <<shm, calls>>
    /\ \/ PyErr("RuntimeError: Can't create JVM: Failed to find")
       \/ ext' = [ext EXCEPT !.pipe = "PJRmiPipe", !.connected = FALSE,
                             !.pc = "idle", !.args = "none"]

\* _connect(): _pipe->connect() with no check of _pipe; on NULL the member
\* read faults and the process dies.  connect() throws when the connection
\* is there already; newConnection() may give no pipe back.
py_connect ==
    /\ ext.pc = "idle"
    /\ calls < MaxPyCalls
    /\ calls' = calls + 1
    /\ UNCHANGED shm
    /\ IF ext.pipe = "NULL"
       THEN ext' = [ext EXCEPT !.pc = "dead", !.err = "SIGSEGV", !.jvms = 0]
       ELSE IF ext.connected
       THEN PyErr("RuntimeError: Connect failed: Already connected")
       ELSE \E got \in BOOLEAN :
               ext' = [ext EXCEPT !.connected = got, !.err = "none"]

\* _disconnect(): refused when _pipe is NULL; otherwise _pipe->disconnect().
py_disconnect ==
    /\ ext.pc = "idle"
    /\ calls < MaxPyCalls
    /\ calls' = calls + 1
    /\ UNCHANGED shm
    /\ IF ext.pipe = "NULL"
       THEN PyErr("ValueError: Not connected")
       ELSE ext' = [ext EXCEPT !.pc = "disconnect", !.err = "none"]

\* PJRmiPipe::disconnect(): throws when there is no connection, and then
\* _disconnect() deletes nothing; otherwise the connection is dropped.
PJRmiPipe_disconnect ==
    /\ ext.pc = "disconnect"
    /\ UNCHANGED <<shm, calls>>
    /\ IF ~ext.connected
       THEN PyErr("RuntimeError: Disconnect failed: Not connected")
       ELSE ext' = [ext EXCEPT !.connected = FALSE, !.pc = "delete"]

\* delete(_pipe); _pipe = NULL: the destructor calls _jvm->DestroyJavaVM()
\* and nothing else.
PJRmiPipe_dtor ==
    /\ ext.pc = "delete"
    /\ UNCHANGED <<shm, calls>>
    /\ ext' = [ext EXCEPT !.jvms = @ - 1, !.destroyed = @ + 1,
                          !.pipe = "NULL", !.pc = "idle"]

NextJvm ==
    \/ py_create_jvm
    \/ PJRmiPipe
    \/ PJRmiPipe_CreateJavaVM
    \/ PJRmiPipe_lookup
    \/ py_connect
    \/ py_disconnect
    \/ PJRmiPipe_disconnect
    \/ PJRmiPipe_dtor

SpecJvm == Init /\ [][NextJvm]_vars

\* C34: there is never more than one JavaVM, and never a PJRmiPipe without
\* its JavaVM and the guard; the constructor entered with _have_instance set
\* throws at once and makes nothing; create_jvm() does not enter the
\* constructor while _pipe holds an instance; a JavaVM is only made when
\* there is none.
C34_OneInstance ==
    /\ [](ext.jvms <= 1)
    /\ [](ext.pipe # "NULL" => (ext.jvms = 1 /\ ext.have_instance))
    /\ [][(ext.pc = "PJRmiPipe" /\ ext.have_instance)
          => /\ ext'.pc = "idle"
             /\ ext'.err = "RuntimeError: Can't create JVM: Only one JVM instance"
             /\ ext'.jvms = ext.jvms
             /\ ext'.pipe = ext.pipe]_vars
    /\ [][(ext.pc = "idle" /\ ext.pipe # "NULL") => ext'.pc # "PJRmiPipe"]_vars
    /\ [][ext'.jvms > ext.jvms => (ext.jvms = 0 /\ ext.pipe = "NULL")]_vars

\* The constructor failed after it had made the JavaVM, which runs on with
\* _pipe NULL, and the next create_jvm() was stopped by the guard.
C34_Witness ==
    /\ ext.err = "RuntimeError: Can't create JVM: Only one JVM instance"
    /\ ext.jvms = 1
    /\ ext.pipe = "NULL"

\* C35: the step that deletes the PJRmiPipe leaves _have_instance false, so
\* that the constructor entered afterwards does not throw for the guard; and
\* _have_instance is true only while a PJRmiPipe exists or is being made.
C35_TeardownClearsGuard ==
    /\ [][ext.pc = "delete" => ~ext'.have_instance]_vars
    /\ [][(ext.pc = "PJRmiPipe" /\ ext.destroyed > 0 /\ ext.jvms = 0)
          => ext'.pc = "JNI_CreateJavaVM"]_vars
    /\ [](ext.have_instance
          => \/ ext.pipe # "NULL"
             \/ ext.pc \in {"JNI_CreateJavaVM", "FindClass", "delete"})

\* C36: when write_bytes_to_shm (either mode), mmap_bytes_from_shm or
\* read_bytes_from_shm has returned or thrown, no descriptor the call opened
\* is open: between calls the process has no descriptor at all, and the step
\* that ends a call closes what the call still had.
C36_NoDescriptorLeak ==
    /\ [](pc = "idle" => fds = {})
    /\ [][(fr.fn \in WriteFns \cup ReadFns /\ pc' = "idle")
          => \A d \in fds' : d.ino # fr.fd]_vars

\* A mapped write has thrown because lseek() failed, after open() had given
\* it a descriptor.
C36_Witness ==
    /\ ret.fn = "write_lambda"
    /\ ret.kind = "io"
    /\ ret.stage = "lseek"
    /\ pc = "idle"

(***************************************************************************)
(* The buffered write on its own, each of its steps taken sooner or later: *)
(* the thread is never stopped for good.                                   *)
(***************************************************************************)
NextLoop ==
    \/ write_bytes_to_shm_data
    \/ W_create_filename
    \/ OFW_open
    \/ OFW_fstatvfs
    \/ WD_write_header
    \/ WD_write_type
    \/ WD_write_loop
    \/ WD_fstat

SpecLoop == Init /\ [][NextLoop]_vars /\ WF_vars(NextLoop)

\* C37: whatever write() returns, turn after turn (all that was asked, a
\* part of it, nothing, or an error), the payload loop of the buffered write
\* is left, and the call then returns the handle or throws.
C37_LoopTerminates ==
    (pc = "write_loop") ~> (pc = "idle" /\ ret.fn = "write_data")

(***************************************************************************)
(* The JNI glue: Java_com_deshaw_pjrmi_JniPJRmi_nativeGet*Array().          *)
(***************************************************************************)
\* sizeof() of the element each of the seven nativeGet*Array functions reads.
sizeof_elem(type) ==
    CASE type = TYPE_BOOLEAN -> 1
      [] type = TYPE_BYTE    -> 1
      [] type = TYPE_SHORT   -> 2
      [] type = TYPE_INTEGER -> 4
      [] type = TYPE_LONG    -> 8
      [] type = TYPE_FLOAT   -> 4
      [] type = TYPE_DOUBLE  -> 8

\* The jstring filename of a call: NULL, or a string of these characters.
JStrings ==
    {[null |-> TRUE, chars |-> EmptyName]} \cup
    {[null |-> FALSE, chars |-> f] : f \in Names \cup {EmptyName}}

\* const char* GetStringUTFChars(filename, NULL): the characters, or NULL
\* when the JVM cannot allocate them.
GetStringUTFChars(filename) ==
    {[null |-> FALSE, chars |-> filename.chars], [null |-> TRUE, chars |-> EmptyName]}

\* nativeGet*Array(filename, result, num_elems) is called and checks its
\* inputs with error_check_for_get(); array_bytes = num_elems * sizeof(elem).
\* strlen() of a NULL GetStringUTFChars() result kills the process.
J_nativeGet ==
    /\ pc = "idle"
    /\ calls < MaxCalls
    /\ calls' = calls + 1
    /\ UNCHANGED <<allocs, ext, published>>
    /\ \E filename \in JStrings, result \in {"NULL", "array"},
          num_elems \in -1..MaxN, type \in CallTypes \ {UNKNOWN} :
          /\ num_elems * sizeof_elem(type) <= MaxN
          /\ LET call == [NoFrame EXCEPT !.fn = "nativeGet",
                                         !.file = filename.chars,
                                         !.array_bytes = Max(num_elems, 0) * sizeof_elem(type),
                                         !.type = type,
                                         !.jni.filename = filename]
                 bad(stage) == /\ ret' = [NoRet EXCEPT !.fn = "nativeGet",
                                                       !.kind = "illegal_argument",
                                                       !.stage = stage,
                                                       !.file = filename.chars,
                                                       !.jni = call.jni]
                               /\ pc' = "idle"
                               /\ fr' = NoFrame
                               /\ UNCHANGED <<names, data, fds, maps, held>>
             IN  IF filename.null
                 THEN bad("filename")
                 ELSE \E chars \in GetStringUTFChars(filename) :
                         IF chars.null
                         THEN /\ ret' = [NoRet EXCEPT !.fn = "nativeGet",
                                                      !.kind = "SIGSEGV",
                                                      !.stage = "signal",
                                                      !.file = filename.chars,
                                                      !.jni = call.jni]
                              /\ pc' = "idle"
                              /\ fr' = NoFrame
                              /\ held' = {}
                              /\ Settle(names, data, {}, {})
                         ELSE IF chars.chars = EmptyName
                         THEN bad("empty")
                         ELSE IF result = "NULL"
                         THEN bad("result")
                         ELSE IF num_elems < 0
                         THEN bad("num_elems")
                         ELSE /\ fr' = call
                              /\ pc' = "from_shm"
                              /\ ret' = NoRet
                              /\ UNCHANGED <<names, data, fds, maps, held>>

\* pjrmi_array_from_shm(): without the characters of the filename a Java
\* IOException is raised and NULL returned; with them mmap_bytes_from_shm()
\* is called, whose exception::io becomes a Java IOException and NULL.
J_from_shm ==
    /\ pc = "from_shm"
    /\ UNCHANGED <<calls, allocs, ext, published, held>>
    /\ \E file \in GetStringUTFChars(fr.jni.filename) :
          IF file.null
          THEN /\ Throw("io", "GetStringUTFChars", {"GetStringUTFChars"})
               /\ UNCHANGED <<names, data, fds, maps>>
          ELSE /\ fr' = [fr EXCEPT !.file = file.chars]
               /\ pc' = "open"
               /\ UNCHANGED <<names, data, fds, maps, ret>>

\* env->Set*ArrayRegion(result, 0, num_elems, data): the payload is read
\* from the mapping into the Java array.
J_SetArrayRegion ==
    /\ pc = "SetArrayRegion"
    /\ UNCHANGED <<calls, allocs, ext>>
    /\ LET m       == MapOf(fr.addr)
           content == data[m.ino]
           from    == fr.addr - m.base
       IN  IF fr.array_bytes > 0 /\ Faults(content, from + fr.array_bytes - 1)
           THEN Crash
           ELSE /\ fr' = [fr EXCEPT !.out = LoadSeq(content, from, fr.array_bytes),
                                    !.jni.copied = TRUE]
                /\ pc' = "cleanup"
                /\ UNCHANGED <<names, data, fds, maps, ret, published, held>>

\* munmap_bytes_from_shm(file, array_bytes, type, result) as the cleanup
\* invokes it: the arguments are noted. unlink() of a NULL file fails with
\* EFAULT and removes no name, as unlink("") does.
Release(file) ==
    /\ fr' = [fr EXCEPT !.file = file.chars,
                        !.failed = @ \cup (IF file.null THEN {"GetStringUTFChars"} ELSE {}),
                        !.jni.released =
                            Append(@, [file |-> file, array_bytes |-> fr.array_bytes,
                                       type |-> fr.type, addr |-> fr.addr,
                                       copied |-> fr.jni.copied])]
    /\ pc' = "munmap"

\* pjrmi_array_from_shm_cleanup(): a NULL from GetStringUTFChars() raises a
\* Java IOException, and the function goes on to munmap_bytes_from_shm()
\* with that NULL all the same.
J_cleanup ==
    /\ pc = "cleanup"
    /\ UNCHANGED <<calls, allocs, ext, published, held>>
    /\ UNCHANGED <<names, data, fds, maps, ret>>
    /\ \E file \in GetStringUTFChars(fr.jni.filename) : Release(file)

NextJni ==
    \/ Next
    \/ J_nativeGet
    \/ J_from_shm
    \/ J_SetArrayRegion
    \/ J_cleanup

SpecJni == Init /\ [][NextJni]_vars

\* The nativeGet*Array call has come back to Java (the process was not
\* killed) past its input checks.
NativeGetBack ==
    /\ pc = "idle"
    /\ ret.fn = "nativeGet"
    /\ ret.kind \in {"ok", "io"}

\* C38: in a nativeGet*Array call, when open_and_map hands out a pointer,
\* release is invoked exactly once, after the copy into the Java array, with
\* the filename, the byte length and the type of the call and with that
\* pointer; when open_and_map fails, release is not invoked.
C38_ReleaseOnce ==
    NativeGetBack =>
        IF ret.jni.data # 0
        THEN ret.jni.released =
                 <<[file |-> [null |-> FALSE, chars |-> ret.jni.filename.chars],
                    array_bytes |-> ret.array_bytes, type |-> ret.type,
                    addr |-> ret.jni.data, copied |-> TRUE]>>
        ELSE ret.jni.released = <<>>

\* A write is past open_file_for_write(), whose free-space check it passed.
PassedSpaceCheck ==
    /\ fr.fn \in {"write_data", "write_lambda"}
    /\ fr.checked > 0

\* write_bytes_to_shm() has returned the handle, in either mode.
WriteReturned ==
    /\ pc = "idle"
    /\ ret.fn \in {"write_data", "write_lambda"}
    /\ ret.kind = "ok"

\* C39: in either mode the byte count given to the free-space check is the
\* number of bytes the mode makes the file occupy: a write that passed the
\* check never makes the file longer than the count checked, and the file
\* of a write that returned is exactly that long.
C39_ChecksWhatItWrites ==
    /\ PassedSpaceCheck => Len(data[fr.fd]) <= fr.checked
    /\ WriteReturned => Len(Content(ret.file)) = ret.checked

\* The tag byte of the file at `file': the byte after the magic.
TagByte(file) == Load(Content(file), sizeof_HEADER_BYTES)

\* C40: the frame a write has published carries one of the seven supported
\* element types in its tag byte; no write called with UNKNOWN returns a
\* handle.
C40_PublishedTagSupported ==
    WriteReturned =>
        /\ TagByte(ret.file) \in SupportedTypes
        /\ ret.type # UNKNOWN

====
